---- MODULE Spec2Model ----
(***************************************************************************)
(* A model of docs/generate_from_yml.py: the script that turns the yml     *)
(* page specifications and the doxygen xml output into rst pages.          *)
(*                                                                         *)
(* Python strings are modelled by TLA+ strings, processed one character at *)
(* a time (Len, SubSeq and \o act on strings in TLC).  Python's None is    *)
(* the empty tuple <<>> and a present optional value x is <<x>>.           *)
(***************************************************************************)
EXTENDS Integers, Sequences, FiniteSets, TLC

VARIABLES
    xml,            \* build/xml: path -> parsed file
    listdir,        \* the namespace files of build/xml, as os.listdir orders them
    __DOXY_DICT,
    inserted,       \* the keys of __DOXY_DICT in the order they were inserted
    __WARNINGS,
    stderr,         \* the warnings of __warn and main's escape sequences, in order
    opened,         \* path -> how many times a file of build/xml was opened
    raised,         \* <<name, params>> -> how many times doxy_xml raised KeyError
    lru,            \* the lru_cache of each decorated function: arguments -> result
    __defaults__,   \* the list that is the default of convert_to_rst's context
    call,           \* None, or the frame of the call in progress
    calls,          \* how many calls have been made
    arg,    \* the argument being typed for a string function, then passed
    typed,  \* how many items have been typed into arg
    res,    \* <<>> before the call, <<result>> after it
    fs,     \* the files of the working directory docs/: path -> entry
    pc,     \* where the process is: "run", "raised" (an uncaught exception) ...
    __REWRITES_ATTEMPTED,
    __REWRITES_ACTUAL,
    __RST_FILES_WRITTEN,    \* the keys of the dict of that name
    stdout,         \* the lines written by __info, in order
    yml,            \* the directory yml: file name -> page specification
    queue,          \* what is left of the loop main is in
    emitted,        \* the calls of __write_file_if_changed of this run
    runs            \* how many runs of main were started

strVars == <<arg, typed, res>>
fileVars == <<fs, pc, __REWRITES_ATTEMPTED, __REWRITES_ACTUAL,
              __RST_FILES_WRITTEN, stdout, yml, queue, emitted, runs>>
doxyVars == <<xml, listdir, __DOXY_DICT, inserted, __WARNINGS, stderr, opened, raised, lru,
              __defaults__, call, calls>>
vars == <<strVars, fileVars, doxyVars>>

None == <<>>
Some(x) == <<x>>

(***************************************************************************)
(* Python string primitives.                                               *)
(***************************************************************************)
\* s[i] for a 0-based index i inside the string
Ch(s, i) == SubSeq(s, i + 1, i + 1)

\* str.isspace() / the regex class \s, on the characters a TLA+ string holds
IsSpace(c) == c \in {" ", "\t", "\n", "\r", "\f"}

\* s[lo:hi] with Python's treatment of negative and out-of-range indices
PySlice(s, lo, hi) ==
    LET n == Len(s)
        norm(i) == IF i < 0 THEN (IF i + n < 0 THEN 0 ELSE i + n)
                   ELSE (IF i > n THEN n ELSE i)
    IN  SubSeq(s, norm(lo) + 1, norm(hi))

\* s[lo:]
PySliceFrom(s, lo) == PySlice(s, lo, Len(s))

RECURSIVE LStrip(_)
LStrip(s) == IF Len(s) > 0 /\ IsSpace(Ch(s, 0)) THEN LStrip(Tail(s)) ELSE s

RECURSIVE RStrip(_)
RStrip(s) ==
    IF Len(s) > 0 /\ IsSpace(Ch(s, Len(s) - 1))
    THEN RStrip(SubSeq(s, 1, Len(s) - 1))
    ELSE s

\* str.strip()
Strip(s) == RStrip(LStrip(s))

\* s.startswith(p), s.endswith(p)
StartsWith(s, p) == Len(p) <= Len(s) /\ SubSeq(s, 1, Len(p)) = p
EndsWith(s, p) == Len(p) <= Len(s) /\ SubSeq(s, Len(s) - Len(p) + 1, Len(s)) = p

\* whether p occurs in s at 0-based position i
OccursAt(s, p, i) == i >= 0 /\ i + Len(p) <= Len(s) /\ SubSeq(s, i + 1, i + Len(p)) = p

RECURSIVE FindFrom(_, _, _)
FindFrom(s, p, i) ==
    IF i + Len(p) > Len(s) THEN -1
    ELSE IF OccursAt(s, p, i) THEN i
    ELSE FindFrom(s, p, i + 1)

\* s.find(p): the lowest 0-based index of p in s, or -1
Find(s, p) == FindFrom(s, p, 0)

RECURSIVE RFindFrom(_, _, _)
RFindFrom(s, p, i) ==
    IF i < 0 THEN -1
    ELSE IF OccursAt(s, p, i) THEN i
    ELSE RFindFrom(s, p, i - 1)

\* s.rfind(p): the highest 0-based index of p in s, or -1
RFind(s, p) == RFindFrom(s, p, Len(s) - Len(p))

\* s.rfind(p, lo, hi): the highest index of p inside s[lo:hi], or -1
RFindIn(s, p, lo, hi) ==
    LET r == RFind(PySlice(s, lo, hi), p) IN IF r = -1 THEN -1 ELSE r + lo

RECURSIVE JoinRange(_, _, _, _)
\* the concatenation piece[lo] \o ... \o piece[hi], halving the range
JoinRange(piece, lo, hi, empty) ==
    IF lo > hi THEN empty
    ELSE IF lo = hi THEN piece[lo]
    ELSE LET mid == (lo + hi) \div 2
         IN  JoinRange(piece, lo, mid, empty) \o JoinRange(piece, mid + 1, hi, empty)

\* the concatenation piece[i] \o ... \o piece[n]; empty is the empty string
\* or tuple the pieces are made of
JoinPieces(piece, i, empty) == JoinRange(piece, i, Len(piece), empty)

\* the character before / after 1-based position i, "" at the ends
PrevCh(s, i) == IF i > 1 THEN SubSeq(s, i - 1, i - 1) ELSE ""
NextCh(s, i) == IF i < Len(s) THEN SubSeq(s, i + 1, i + 1) ELSE ""

RECURSIVE NextNonSpace(_, _)
\* the first non-whitespace character at 1-based position i or later, "" if none
NextNonSpace(s, i) ==
    IF i > Len(s) THEN ""
    ELSE IF IsSpace(SubSeq(s, i, i)) THEN NextNonSpace(s, i + 1)
    ELSE SubSeq(s, i, i)

RECURSIVE PrevNonSpace(_, _)
\* the last non-whitespace character at 1-based position i or earlier, "" if none
PrevNonSpace(s, i) ==
    IF i < 1 THEN ""
    ELSE IF IsSpace(SubSeq(s, i, i)) THEN PrevNonSpace(s, i - 1)
    ELSE SubSeq(s, i, i)

(***************************************************************************)
(* doxy_normalize_yml_params, one operator per re.sub of the source.       *)
(***************************************************************************)
\* re.sub(r"\s{2,}", " ", s): every run of two or more whitespace
\* characters becomes one space; a lone whitespace character is kept
SubCollapseSpaces(s) ==
    JoinPieces([i \in 1..Len(s) |->
        LET c == SubSeq(s, i, i) IN
        IF ~IsSpace(c) THEN c
        ELSE IF IsSpace(PrevCh(s, i)) THEN ""
        ELSE IF IsSpace(NextCh(s, i)) THEN " "
        ELSE c], 1, "")

\* re.sub(r"(?<=[<])(?=[^\s])", " ", s)
SubSpaceAfterLt(s) ==
    JoinPieces([i \in 1..Len(s) |->
        LET c == SubSeq(s, i, i) n == NextCh(s, i) IN
        IF c = "<" /\ n # "" /\ ~IsSpace(n) THEN c \o " " ELSE c], 1, "")

SubSpaceBeforeGt_any(s) ==
    JoinPieces([i \in 1..Len(s) |->
        LET c == SubSeq(s, i, i) n == NextCh(s, i) IN
        IF n = ">" THEN c \o " " ELSE c], 1, "")

\* re.sub(r"(?<=[^\s])(?=[>])", " ", s)
SubSpaceBeforeGt(s) ==
    JoinPieces([i \in 1..Len(s) |->
        LET c == SubSeq(s, i, i) n == NextCh(s, i) IN
        IF ~IsSpace(c) /\ n = ">" THEN c \o " " ELSE c], 1, "")

\* re.sub(r"(?<=[^\s\&])(?=[\&])", " ", s)
SubSpaceBeforeAmp(s) ==
    JoinPieces([i \in 1..Len(s) |->
        LET c == SubSeq(s, i, i) n == NextCh(s, i) IN
        IF ~IsSpace(c) /\ c # "&" /\ n = "&" THEN c \o " " ELSE c], 1, "")

\* re.sub(r"(?<=[\&])(?=[^\s\&])", " ", s)
SubSpaceAfterAmp(s) ==
    JoinPieces([i \in 1..Len(s) |->
        LET c == SubSeq(s, i, i) n == NextCh(s, i) IN
        IF c = "&" /\ n # "" /\ ~IsSpace(n) /\ n # "&" THEN c \o " " ELSE c],
        1, "")

\* re.sub(r"\s*,\s*", ",", s): the whitespace runs that touch a comma go
SubCommaSpaces(s) ==
    JoinPieces([i \in 1..Len(s) |->
        LET c == SubSeq(s, i, i) IN
        IF IsSpace(c) /\ (NextNonSpace(s, i) = "," \/ PrevNonSpace(s, i) = ",")
        THEN "" ELSE c], 1, "")

\* if params.endswith("& ) >"): params = re.sub(r"\& \) >$", "&)>", params)
SubTightenAmpParenGt(s) ==
    IF EndsWith(s, "& ) >") THEN SubSeq(s, 1, Len(s) - 5) \o "&)>" ELSE s

doxy_normalize_yml_params(params) ==
    SubTightenAmpParenGt(
        SubCommaSpaces(
            SubSpaceAfterAmp(
                SubSpaceBeforeAmp(
                    SubSpaceBeforeGt(
                        SubSpaceAfterLt(
                            SubCollapseSpaces(
                                Strip(params))))))))

(***************************************************************************)
(* extract_yml_func_signature: the pair (name, params) as a record, params *)
(* None or Some(string).                                                   *)
(***************************************************************************)
extract_yml_func_signature_unnormalized(yml_entry) ==
    LET e == Strip(yml_entry)
        lpos == Find(e, "(")
        rpos == RFind(e, ")")
        params == "(" \o PySlice(e, lpos + 1, rpos) \o PySliceFrom(e, rpos)
    IN  IF lpos = -1 THEN [name |-> e, params |-> None]
        ELSE IF StartsWith(e, "template")
        THEN [name |-> PySlice(e, RFindIn(e, " ", 0, lpos) + 1, lpos),
              params |-> Some(params)]
        ELSE [name |-> PySlice(e, 0, lpos), params |-> Some(params)]

extract_yml_func_signature(yml_entry) ==
    LET e == Strip(yml_entry)
        lpos == Find(e, "(")
        rpos == RFind(e, ")")
        params == "(" \o doxy_normalize_yml_params(PySlice(e, lpos + 1, rpos))
                      \o PySliceFrom(e, rpos)
    IN  IF lpos = -1 THEN [name |-> e, params |-> None]
        ELSE IF StartsWith(e, "template")
        THEN [name |-> PySlice(e, RFindIn(e, " ", 0, lpos) + 1, lpos),
              params |-> Some(params)]
        ELSE [name |-> PySlice(e, 0, lpos), params |-> Some(params)]

(***************************************************************************)
(* filename_from_cppname.  A name is a tuple of characters here, each a    *)
(* one-character string; the two characters outside ASCII that matter to   *)
(* str.lower() are written by their code points, "U+0130" (LATIN CAPITAL   *)
(* LETTER I WITH DOT ABOVE) and "U+0307" (COMBINING DOT ABOVE).            *)
(***************************************************************************)
\* the characters of an ASCII string
Chars(s) == [i \in 1..Len(s) |-> SubSeq(s, i, i)]

LowerLetters == "abcdefghijklmnopqrstuvwxyz"
UpperLetters == "ABCDEFGHIJKLMNOPQRSTUVWXYZ"
Digits == "0123456789"

\* the regex class \w on a str pattern: alphanumeric, or the underscore
IsWordCh(c) ==
    \/ c = "_"
    \/ c = "U+0130"
    \/ \E i \in 1..Len(LowerLetters) :
           c = SubSeq(LowerLetters, i, i) \/ c = SubSeq(UpperLetters, i, i)
    \/ \E i \in 1..Len(Digits) : c = SubSeq(Digits, i, i)

\* str.lower() of one character: the characters it becomes
LowerCh(c) ==
    IF c = "U+0130" THEN <<"i", "U+0307">>
    ELSE IF \E i \in 1..Len(UpperLetters) : c = SubSeq(UpperLetters, i, i)
    THEN LET i == CHOOSE i \in 1..Len(UpperLetters) :
                      c = SubSeq(UpperLetters, i, i)
         IN  <<SubSeq(LowerLetters, i, i)>>
    ELSE <<c>>

\* name.lower()
PyLower(name) == JoinPieces([i \in 1..Len(name) |-> LowerCh(name[i])], 1, <<>>)

RECURSIVE SkipSpaces(_, _)
\* the first 0-based index at or after i that holds no whitespace
SkipSpaces(name, i) ==
    IF i < Len(name) /\ IsSpace(name[i + 1]) THEN SkipSpaces(name, i + 1) ELSE i

RECURSIVE SubMatches(_, _, _, _)
\* p.sub(rep, name) from 0-based index i on, where matchLen[i] is the
\* length of the pattern's match at i, 0 when it does not match there
SubMatches(name, i, matchLen, rep) ==
    IF i >= Len(name) THEN SubSeq(name, 1, 0)
    ELSE IF matchLen[i] > 0
    THEN rep \o SubMatches(name, i + matchLen[i], matchLen, rep)
    ELSE SubSeq(name, i + 1, i + 1) \o SubMatches(name, i + 1, matchLen, rep)

\* re.sub(lit, rep, s) on a string, for a pattern that is the literal lit
SubLiteralStr(s, lit, rep) ==
    SubMatches(s, 0,
               [i \in 0..Len(s) |-> IF OccursAt(s, lit, i) THEN Len(lit) ELSE 0],
               rep)

\* p.sub(rep, name) for a pattern that is the literal lit
SubLiteral(name, lit, rep) ==
    SubMatches(name, 0,
               [i \in 0..Len(name) |->
                   IF OccursAt(name, Chars(lit), i) THEN Len(lit) ELSE 0],
               Chars(rep))

\* re.compile(r"operator\s*\*").sub("operator_star", name)
SubOperatorStar(name) ==
    SubMatches(name, 0,
               [i \in 0..Len(name) |->
                   IF OccursAt(name, Chars("operator"), i)
                   THEN LET j == SkipSpaces(name, i + 8)
                        IN  IF j < Len(name) /\ name[j + 1] = "*"
                            THEN j + 1 - i ELSE 0
                   ELSE 0],
               Chars("operator_star"))

\* re.compile(r"operator<$").sub("operator_less", name): $ matches at the
\* end of the string and before a newline that ends it
SubOperatorLess(name) ==
    SubMatches(name, 0,
               [i \in 0..Len(name) |->
                   IF /\ OccursAt(name, Chars("operator<"), i)
                      /\ \/ i + 9 = Len(name)
                         \/ i + 10 = Len(name) /\ name[Len(name)] = "\n"
                   THEN 9 ELSE 0],
               Chars("operator_less"))

\* re.compile(r"[\W]").sub("_", name)
SubNonWord(name) ==
    [i \in 1..Len(name) |-> IF IsWordCh(name[i]) THEN name[i] ELSE "_"]

filename_from_cppname(name) ==
    PyLower(
        SubNonWord(
            SubLiteral(
                SubLiteral(
                    SubLiteral(
                        SubOperatorLess(
                            SubLiteral(
                                SubLiteral(
                                    SubOperatorStar(name),
                                    "operator!=", "operator_not_eq"),
                                "operator()", "call_operator")),
                        "operator<<", "insertion_operator"),
                    "operator==", "operator_equal_to"),
                "operator>", "operator_greater")))

(***************************************************************************)
(* Files.  An entry of fs is absent, a directory, or a regular file with   *)
(* its bytes (ASCII, so a byte is a character).  The script opens its      *)
(* output files in text mode: on POSIX write() stores the characters as    *)
(* they are, and read() translates "\r\n" and a lone "\r" to "\n"          *)
(* (universal newlines).                                                   *)
(***************************************************************************)
NoFile == [kind |-> "none", bytes |-> ""]
Directory == [kind |-> "dir", bytes |-> ""]
RegularFile(b) == [kind |-> "file", bytes |-> b]

\* open(fname, "r").read(): the text of a file's bytes
TextModeRead(bytes) ==
    JoinPieces([i \in 1..Len(bytes) |->
        LET c == SubSeq(bytes, i, i) IN
        IF c = "\r" THEN (IF NextCh(bytes, i) = "\n" THEN "" ELSE "\n")
        ELSE c], 1, "")

\* open(fname, "w").write(contents): the bytes of a text (os.linesep is "\n")
TextModeWrite(contents) == contents

\* the state the file functions act on, as a record
FileState ==
    [fs |-> fs, pc |-> pc, attempted |-> __REWRITES_ATTEMPTED,
     actual |-> __REWRITES_ACTUAL, written |-> __RST_FILES_WRITTEN,
     stdout |-> stdout]

SetFileState(st) ==
    /\ fs' = st.fs
    /\ pc' = st.pc
    /\ __REWRITES_ATTEMPTED' = st.attempted
    /\ __REWRITES_ACTUAL' = st.actual
    /\ __RST_FILES_WRITTEN' = st.written
    /\ stdout' = st.stdout

EntryOf(fsys, fname) == IF fname \in DOMAIN fsys THEN fsys[fname] ELSE NoFile
PutEntry(fsys, fname, e) ==
    [f \in DOMAIN fsys \cup {fname} |-> IF f = fname THEN e ELSE fsys[f]]

\* __info(msg)
__info(st, msg) == [st EXCEPT !.stdout = Append(@, msg)]

\* __write_file_if_changed with line 92 moved after the comparison: a name
\* is tracked unless its file holds the contents already
__write_file_if_changed_lazily(st, fname, contents) ==
    LET counted == [st EXCEPT !.attempted = @ + 1]
        tracked == [counted EXCEPT !.written = @ \cup {fname}]
        old == EntryOf(st.fs, fname)
    IN  IF old.kind = "file" /\ TextModeRead(old.bytes) = contents
        THEN counted
        ELSE IF old.kind = "dir"
        THEN [tracked EXCEPT !.pc = "raised"]
        ELSE [__info(tracked, "Rewriting docs/" \o fname \o " ...")
                EXCEPT !.actual = @ + 1,
                       !.fs = PutEntry(@, fname, RegularFile(TextModeWrite(contents)))]

\* __write_file_if_changed(fname, contents) on state st: the state after it.
\* open(fname, "w") on a directory raises IsADirectoryError before the
\* counter of actual rewrites is touched.
__write_file_if_changed(st, fname, contents) ==
    LET tracked == [st EXCEPT !.attempted = @ + 1,
                              !.written = @ \cup {fname}]
        old == EntryOf(st.fs, fname)
    IN  IF old.kind = "file" /\ TextModeRead(old.bytes) = contents
        THEN tracked
        ELSE IF old.kind = "dir"
        THEN [tracked EXCEPT !.pc = "raised"]
        ELSE [__info(tracked, "Rewriting docs/" \o fname \o " ...")
                EXCEPT !.actual = @ + 1,
                       !.fs = PutEntry(@, fname, RegularFile(TextModeWrite(contents)))]

FilesIdle ==
    /\ fs = <<>>
    /\ pc = "idle"
    /\ __REWRITES_ATTEMPTED = 0
    /\ __REWRITES_ACTUAL = 0
    /\ __RST_FILES_WRITTEN = {}
    /\ stdout = <<>>
    /\ yml = <<>>
    /\ queue = <<>>
    /\ emitted = <<>>
    /\ runs = 0

(***************************************************************************)
(* The doxygen output in build/xml.  xml maps a path to the parsed file: a *)
(* compounddef with its compoundname and kind, and the memberdef elements  *)
(* in document order.  An attribute that is absent is "".  A node of the   *)
(* parse is named by its file and its position (0: the compounddef).       *)
(***************************************************************************)
Node(path, idx) == [file |-> path, idx |-> idx]

IsFile(xmlFiles, path) == path \in DOMAIN xmlFiles

IsUpper(c) == \E i \in 1..Len(UpperLetters) : c = SubSeq(UpperLetters, i, i)

\* re.compile(r"([A-Z])").sub(r"_\1", name).lower(), on an ASCII string
SubUpperToUnderscoreLower(s) ==
    JoinPieces([i \in 1..Len(s) |->
        LET c == SubSeq(s, i, i) IN
        IF IsUpper(c) THEN "_" \o LowerCh(c)[1] ELSE c], 1, "")

\* the name part of a file of build/xml for a C++ name
doxy_mangle(name) ==
    SubUpperToUnderscoreLower(
        SubLiteralStr(SubLiteralStr(name, "_", "__"), "::", "_1_1"))

\* the names the lookups below ask for, and every prefix the walk of doxy_xml
\* cuts from them
PrimaryNames == {"ns::A", "ns::free", "ns::Nope"}
MemberNames == {"ns::A::f", "ns::A::v", "ns::A::B::h", "ns::A::nope"}
\* the other names the pages of YmlUniverse look up
PageSymbols == {"ns::A::A", "ns::A::B", "ns::Nope::x", "ns::D::v"}

WalkedNames ==
    {PySlice(n, 0, k) : n \in PrimaryNames \cup MemberNames \cup PageSymbols,
                        k \in 0..12}

\* doxy_filename is behind an lru_cache: the mangled form of a name is
\* computed once
MangleCache == [n \in WalkedNames |-> doxy_mangle(n)]

Mangled(name) ==
    IF name \in DOMAIN MangleCache THEN MangleCache[name] ELSE doxy_mangle(name)

\* lines 311-314, for the mangled name
ClassOrStructFile(xmlFiles, mangled) ==
    IF IsFile(xmlFiles, "build/xml/class" \o mangled \o ".xml")
    THEN "build/xml/class" \o mangled \o ".xml"
    ELSE "build/xml/struct" \o mangled \o ".xml"

doxy_filename(xmlFiles, name) == ClassOrStructFile(xmlFiles, Mangled(name))

RECURSIVE WalkOutward(_, _, _)
\* the while loop of doxy_xml: the right-hand side of the assignment
\*     class_, pos = class_[:pos], class_.rfind("::")
\* is evaluated with the old class_
WalkOutward(xmlFiles, class_, pos) ==
    IF pos # -1 /\ ~IsFile(xmlFiles, doxy_filename(xmlFiles, class_))
    THEN WalkOutward(xmlFiles, PySlice(class_, 0, pos), RFind(class_, "::"))
    ELSE class_

RECURSIVE JoinWith(_, _)
\* sep.join(items)
JoinWith(sep, items) ==
    IF Len(items) = 0 THEN ""
    ELSE IF Len(items) = 1 THEN items[1]
    ELSE items[1] \o sep \o JoinWith(sep, Tail(items))

InTuple(x, items) == \E i \in 1..Len(items) : items[i] = x

RECURSIVE Without(_, _)
\* [x for x in items if x not in excluded]
Without(items, excluded) ==
    IF Len(items) = 0 THEN <<>>
    ELSE IF InTuple(items[1], excluded) THEN Without(Tail(items), excluded)
    ELSE <<items[1]>> \o Without(Tail(items), excluded)

\* x.find_all("param") of a memberdef, as the texts of their type elements:
\* the params of its templateparamlist, then the params of the function
AllParamTypes(m) ==
    (IF m.tparams = None THEN <<>>
     ELSE [i \in 1..Len(m.tparams[1]) |-> m.tparams[1][i].type]) \o m.params

\* the parameter signature doxy_xml files a function memberdef under
ParamSignature(m) ==
    LET types == [i \in 1..Len(AllParamTypes(m)) |-> Strip(AllParamTypes(m)[i])]
        param == IF m.tparams = None THEN types
                 ELSE Without(types, [i \in 1..Len(m.tparams[1]) |->
                                         Strip(m.tparams[1][i].type)])
        p0 == "(" \o JoinWith(",", param) \o ")"
        p1 == IF m.const = "yes" THEN p0 \o " const"
              ELSE IF EndsWith(m.argsstring, " const") THEN p0 \o " const"
              ELSE p0
        p2 == IF m.noexcept = "yes" THEN p1 \o " noexcept" ELSE p1
        p3 == IF EndsWith(m.argsstring, "=default") THEN p2 \o " = default" ELSE p2
        p4 == IF EndsWith(m.argsstring, "=delete") THEN p3 \o " = delete" ELSE p3
        p5 == IF EndsWith(m.argsstring, " override") THEN p4 \o " override" ELSE p4
    IN  IF EndsWith(m.argsstring, "=0") THEN p5 \o " = 0" ELSE p5

(***************************************************************************)
(* __DOXY_DICT maps a name to a value: a node (kind "tag") or a dict from  *)
(* parameter signatures to nodes (kind "dict", sigs).  Subscripting a tag  *)
(* reads and writes its attributes: sigs holds, for a tag, the attributes  *)
(* the program wrote (line 377 on a name that is a tag), each an element;  *)
(* the attributes the XML gave the element are read from the element       *)
(* (Attribute).  A value that doxy_xml returns can also be the text of     *)
(* such an attribute (kind "str").                                         *)
(***************************************************************************)
NoNode == Node("", 0)
TagValue(node) == [kind |-> "tag", node |-> node, sigs |-> <<>>]
EmptyDictValue == [kind |-> "dict", node |-> NoNode, sigs |-> <<>>]
StrValue(text) == [kind |-> "str", node |-> NoNode, sigs |-> <<>>, text |-> text]

\* the element a node names
NodeElement(xmlFiles, node) ==
    IF node.idx = 0 THEN xmlFiles[node.file]
    ELSE xmlFiles[node.file].members[node.idx]

\* the id attribute of the element a node names
ElementId(node) == node.file \o "#" \o ToString(node.idx)

\* the attributes the XML gives an element: id and kind for a compounddef;
\* id, kind, prot, const and noexcept for a memberdef; one that is "" in
\* the element is absent
XmlAttributes(xmlFiles, node) ==
    {"id"}
    \cup {a \in {"kind"} : NodeElement(xmlFiles, node).kind # ""}
    \cup {a \in {"prot"} : node.idx # 0 /\ NodeElement(xmlFiles, node).prot # ""}
    \cup {a \in {"const"} : node.idx # 0 /\ NodeElement(xmlFiles, node).const # ""}
    \cup {a \in {"noexcept"} : node.idx # 0 /\ NodeElement(xmlFiles, node).noexcept # ""}

\* the text of an attribute of XmlAttributes
Attribute(xmlFiles, node, a) ==
    IF a = "id" THEN ElementId(node)
    ELSE IF a = "kind" THEN NodeElement(xmlFiles, node).kind
    ELSE IF a = "prot" THEN NodeElement(xmlFiles, node).prot
    ELSE IF a = "const" THEN NodeElement(xmlFiles, node).const
    ELSE NodeElement(xmlFiles, node).noexcept

Put(f, k, v) == [x \in DOMAIN f \cup {k} |-> IF x = k THEN v ELSE f[x]]

RECURSIVE Inserting(_, _, _)
\* a dict keeps its keys in the order they were inserted: order, after
\* those of names that came into dict, each once and the first first
Inserting(order, dict, names) ==
    IF names = <<>> THEN order
    ELSE Inserting(IF names[1] \in DOMAIN dict /\ ~InTuple(names[1], order)
                   THEN Append(order, names[1]) ELSE order,
                   dict, Tail(names))

\* the keys the memberdefs of a file are filed under, in document order
MemberKeys(scope, file) ==
    [i \in 1..Len(file.members) |-> scope \o "::" \o file.members[i].name]

\* one turn of the loop over the memberdefs of a class or struct file
\* (lines 336-377): the dict after memberdef i, and the exception raised
IndexMember(dict, class_, path, i, m) ==
    LET mem_def_name == class_ \o "::" \o m.name
        base == IF mem_def_name \in DOMAIN dict THEN dict
                ELSE Put(dict, mem_def_name, EmptyDictValue)
    IN  IF m.prot # "" /\ m.prot # "public"
        THEN [dict |-> dict, exc |-> ""]
        ELSE IF m.kind # "" /\ m.kind # "function" /\ m.kind # "friend"
        THEN IF mem_def_name \in DOMAIN dict
             THEN [dict |-> dict, exc |-> "AssertionError"]
             ELSE [dict |-> Put(dict, mem_def_name, TagValue(Node(path, i))),
                   exc |-> ""]
        ELSE [dict |-> [base EXCEPT ![mem_def_name].sigs =
                                        Put(@, ParamSignature(m), Node(path, i))],
              exc |-> ""]

RECURSIVE ScanMembers(_, _, _, _)
\* the loop over the memberdefs of one namespace file (lines 385-389)
ScanMembers(dict, path, file, i) ==
    IF i > Len(file.members) THEN dict
    ELSE LET y == file.compoundname \o "::" \o file.members[i].name
         IN  ScanMembers(IF y \in DOMAIN dict THEN dict
                         ELSE Put(dict, y, TagValue(Node(path, i))),
                         path, file, i + 1)

\* the files the fallback scan reads: those of os.listdir("build/xml") whose
\* name starts with "namespace"
NamespaceFiles(xmlFiles) ==
    {path \in DOMAIN xmlFiles : StartsWith(path, "build/xml/namespace")}

\* the orders os.listdir can give a set of names in
Listings(S) ==
    {order \in [1..Cardinality(S) -> S] :
        \A i, j \in 1..Cardinality(S) : i # j => order[i] # order[j]}

\* the end of doxy_xml (lines 390-393): the value returned, or KeyError.
\* __DOXY_DICT[name][params] is an element filed under the signature
\* params, or, name being filed as a tag, the attribute params of the tag:
\* an element the program wrote there, or the text the XML gave.
LookupResult(xmlFiles, dict, name, params) ==
    IF name \notin DOMAIN dict THEN [exc |-> "KeyError", value |-> EmptyDictValue]
    ELSE IF params = None THEN [exc |-> "", value |-> dict[name]]
    ELSE IF params[1] \in DOMAIN dict[name].sigs
    THEN [exc |-> "", value |-> TagValue(dict[name].sigs[params[1]])]
    ELSE IF /\ dict[name].kind = "tag"
            /\ params[1] \in XmlAttributes(xmlFiles, dict[name].node)
    THEN [exc |-> "",
          value |-> StrValue(Attribute(xmlFiles, dict[name].node, params[1]))]
    ELSE [exc |-> "KeyError", value |-> EmptyDictValue]

(***************************************************************************)
(* Element trees and convert_to_rst.  An element is a record: its tag      *)
(* name, its attributes, its children in document order; a string among    *)
(* the children is a record named "#text" with its text.                   *)
(*                                                                         *)
(* convert_to_rst(xml, context=[]) has one list for its default argument,  *)
(* made when the function is defined and shared by every call that passes  *)
(* no context.  cx holds the two lists a call can meet: cx.D, that default *)
(* list, and cx.L, the list its outermost caller passed; which names the   *)
(* one the call works on.  The result is the text returned (out), the      *)
(* lists after the call (cx) and the exception raised (exc, "": none).     *)
(*                                                                         *)
(* A string of this language cannot hold U+0060 GRAVE ACCENT, the quote of *)
(* rst: the model writes ^ for it, and no text of the model holds ^.       *)
(***************************************************************************)
Text(t) == [name |-> "#text", attrs |-> <<>>, children |-> <<>>, text |-> t]
Tag(name, attrs, children) ==
    [name |-> name, attrs |-> attrs, children |-> children, text |-> ""]

IsText(x) == x.name = "#text"
KindIs(x, kind) == "kind" \in DOMAIN x.attrs /\ x.attrs["kind"] = kind

RECURSIVE TextOf(_)
\* x.text
TextOf(x) ==
    IF IsText(x) THEN x.text
    ELSE JoinPieces([i \in 1..Len(x.children) |-> TextOf(x.children[i])], 1, "")

RECURSIVE FindAll(_, _)
\* x.find_all(name): the descendants of that name, in document order
FindAll(x, name) ==
    JoinPieces([i \in 1..Len(x.children) |->
                   (IF x.children[i].name = name THEN <<x.children[i]>> ELSE <<>>)
                   \o FindAll(x.children[i], name)], 1, <<>>)

FirstOrNone(items) == IF items = <<>> THEN None ELSE Some(items[1])

\* x.find(name)
FindTag(x, name) == FirstOrNone(FindAll(x, name))

\* next(c for c in xs if c.name == name), None for StopIteration
FirstNamed(xs, name) == FirstOrNone(SelectSeq(xs, LAMBDA c : c.name = name))

RECURSIVE Spaces(_)
Spaces(n) == IF n <= 0 THEN "" ELSE " " \o Spaces(n - 1)

\* the function indent of convert_to_rst (lines 529-534)
indent(context) ==
    Spaces(3 * Cardinality({i \in 1..Len(context) :
               context[i] \in {"memberdef", "compounddef", "parameterdescription",
                               "programlisting"}}))

RECURSIVE Split(_, _)
\* s.split(sep)
Split(s, sep) ==
    IF Find(s, sep) = -1 THEN <<s>>
    ELSE <<PySlice(s, 0, Find(s, sep))>>
         \o Split(PySliceFrom(s, Find(s, sep) + Len(sep)), sep)

\* s.lower(), on an ASCII string
LowerAscii(s) == JoinPieces([i \in 1..Len(s) |-> LowerCh(SubSeq(s, i, i))[1]], 1, "")

Result(out, cx, exc) == [out |-> out, cx |-> cx, exc |-> exc]

\* result += s
Out(r, s) == [r EXCEPT !.out = @ \o s]

\* result += prefix + convert_to_rst(...), sub being what that call did
Sub(r, prefix, sub) ==
    IF sub.exc # "" THEN Result(r.out, sub.cx, sub.exc)
    ELSE Result(r.out \o prefix \o sub.out, sub.cx, "")

\* lines 525-527
Push(cx, which, x) ==
    [cx EXCEPT ![which] = @ \o <<x.name>>
                            \o (IF KindIs(x, "enum") THEN <<"enum">> ELSE <<>>)]

\* the children of an enum in the order of lines 551-559; bd = "" is a string
EnumOrder(x, n, bd) ==
    <<n[1], IF bd = None THEN Text("") ELSE bd[1]>>
    \o SelectSeq(x.children, LAMBDA c : c.name # "briefdescription" /\ c.name # "name")

\* lines 562-565: a string among the children
RenderText(s) ==
    (IF s # "." /\ s # "" /\ ~IsUpper(SubSeq(s, 1, 1)) THEN " " ELSE "") \o s

\* lines 591-597: the return type of a definition split at "::"
RECURSIVE UpToLibsemigroups(_)
UpToLibsemigroups(y) ==
    IF Len(y) = 0 THEN <<>>
    ELSE IF EndsWith(y[1], "libsemigroups") THEN <<y[1]>>
    ELSE <<y[1]>> \o UpToLibsemigroups(Tail(y))

ReturnTypePrefix(joined) == PySlice(joined, 0, RFind(joined, " ") + 1)

\* lines 575-583: a definition that starts with "using", split at "="
UsingDefinition(lhs, rhs) ==
    IF Find(rhs, "detail::") = -1
    THEN Strip(PySliceFrom(lhs, RFind(lhs, "::") + 2)) \o " = "
         \o Strip(SubLiteralStr(Strip(SubLiteralStr(rhs, "typename", "")),
                                "typedef", ""))
    ELSE Strip(SubLiteralStr(Strip(PySliceFrom(lhs, RFind(lhs, "::") + 2)),
                             "using", ""))

\* lines 585-598: any other definition, split at "::"
PlainDefinition(y) ==
    IF y[Len(y)] = "operator="
    THEN [out |-> PySlice(y[1], 0, Find(y[1], "&") + 1) \o y[Len(y)], exc |-> ""]
    ELSE IF Len(y) < 2 THEN [out |-> "", exc |-> "IndexError"]
    ELSE IF ~StartsWith(y[Len(y) - 1], y[Len(y)])
    THEN [out |-> ReturnTypePrefix(JoinWith("::", UpToLibsemigroups(y))) \o y[Len(y)],
          exc |-> ""]
    ELSE [out |-> y[Len(y)], exc |-> ""]

\* lines 574-598
Definition(text) ==
    IF StartsWith(text, "using")
    THEN IF Len(Split(text, "=")) # 2 THEN [out |-> "", exc |-> "ValueError"]
         ELSE [out |-> UsingDefinition(Split(text, "=")[1], Split(text, "=")[2]),
               exc |-> ""]
    ELSE PlainDefinition(Split(text, "::"))

\* lines 608-611: one param of a templateparamlist
TemplateParam(y) ==
    TextOf(FindTag(y, "type")[1])
    \o (IF FindTag(y, "declname") = None THEN ""
        ELSE " " \o TextOf(FindTag(y, "declname")[1]))

\* lines 606-612
TemplateParamList(params) ==
    IF \E i \in 1..Len(params) : FindTag(params[i], "type") = None
    THEN [out |-> "", exc |-> "AttributeError"]
    ELSE [out |-> "template <"
                  \o JoinWith(", ", [i \in 1..Len(params) |-> TemplateParam(params[i])])
                  \o ">",
          exc |-> ""]

\* result += what a branch without a call of convert_to_rst computed
OutOrRaise(r, d) == IF d.exc # "" THEN [r EXCEPT !.exc = d.exc] ELSE Out(r, d.out)

RECURSIVE convert_to_rst(_, _, _)

\* convert_to_rst(opt, context) for what find returned: __accepts refuses None
RenderFound(opt, which, cx) ==
    IF opt = None THEN Result("", cx, "AssertionError")
    ELSE convert_to_rst(opt[1], which, cx)

\* lines 638-642 and 645-649: label is ":tparam " or ":param ", and from is
\* the element whose first parameterdescription is rendered
ParamItem(y, from, label, which, r) ==
    IF FindTag(y, "parametername") = None THEN [r EXCEPT !.exc = "AttributeError"]
    ELSE Sub(r, "\n\n" \o indent(r.cx[which]) \o label
                \o TextOf(FindTag(y, "parametername")[1]) \o ": ",
             RenderFound(FindTag(from, "parameterdescription"), which, r.cx))

\* line 655-657, after the call of line 654 did r
ThrowsDescription(y, which, r) ==
    IF r.exc # "" THEN r
    ELSE Sub(r, "", RenderFound(FindTag(y, "parameterdescription"), which, r.cx))

\* lines 652-657
ThrowsItem(y, which, r) ==
    ThrowsDescription(y, which,
        Sub(r, "\n\n" \o indent(r.cx[which]) \o ":throws:\n"
               \o indent(r.cx[which]) \o "   ",
            RenderFound(FindTag(y, "parametername"), which, r.cx)))

RECURSIVE ParamItems(_, _, _, _, _, _)
\* the loops over x.find_all("parameteritem") of lines 637, 644 and 651
ParamItems(x, items, i, kind, which, r) ==
    IF r.exc # "" \/ i > Len(items) THEN r
    ELSE ParamItems(x, items, i + 1, kind, which,
            IF kind = "templateparam"
            THEN ParamItem(items[i], items[i], ":tparam ", which, r)
            ELSE IF kind = "param"
            THEN ParamItem(items[i], x, ":param ", which, r)
            ELSE ThrowsItem(items[i], which, r))

\* lines 621-626
Para(which, r) ==
    IF r.exc = "" /\ Len(r.cx[which]) > 0
       /\ r.cx[which][Len(r.cx[which])] \in {"detaileddescription", "briefdescription"}
    THEN Out(r, "\n\n" \o indent(r.cx[which]))
    ELSE r

\* one turn of the loop of line 561, for the child x, in the order of the
\* tests of lines 562-695
RenderChild(x, which, r) ==
    IF IsText(x) THEN Out(r, RenderText(Strip(x.text)))
    ELSE IF InTuple("enum", r.cx[which]) /\ x.name = "name"
    THEN Out(r, Strip(TextOf(x)))
    ELSE IF InTuple("enum", r.cx[which]) /\ x.name = "enumvalue"
    THEN Sub(r, "\n\n" \o indent(r.cx[which]) \o ".. cpp:enumerator:: ",
             convert_to_rst(x, which, r.cx))
    ELSE IF x.name = "definition" THEN OutOrRaise(r, Definition(TextOf(x)))
    ELSE IF x.name = "argsstring" THEN Out(r, TextOf(x))
    ELSE IF x.name = "briefdescription"
    THEN Sub(r, "\n\n" \o indent(r.cx[which]), convert_to_rst(x, which, r.cx))
    ELSE IF x.name = "detaileddescription"
    THEN Sub(r, "\n" \o indent(r.cx[which]), convert_to_rst(x, which, r.cx))
    ELSE IF x.name = "templateparamlist"
    THEN OutOrRaise(r, TemplateParamList(FindAll(x, "param")))
    ELSE IF x.name = "computeroutput"
    THEN Out(r, IF Len(TextOf(x)) # 0 THEN " ^^" \o TextOf(x) \o "^^" ELSE "")
    ELSE IF x.name = "formula"
    THEN Out(r, " :math:^" \o SubLiteralStr(TextOf(x), "$", "") \o "^")
    ELSE IF x.name = "title"
    THEN Out(r, "\n\n" \o indent(r.cx[which]) \o ":" \o LowerAscii(TextOf(x)) \o ": ")
    ELSE IF x.name = "para"
    THEN Para(which, Sub(r, "", convert_to_rst(x, which, r.cx)))
    ELSE IF x.name \in {"simplesect", "parameterlist"} /\ "kind" \notin DOMAIN x.attrs
    THEN [r EXCEPT !.exc = "KeyError"]
    ELSE IF x.name = "simplesect" /\ x.attrs["kind"] = "return"
    THEN Sub(r, "\n\n" \o indent(r.cx[which]) \o ":returns: ",
             convert_to_rst(x, which, r.cx))
    ELSE IF x.name = "simplesect" /\ x.attrs["kind"] = "par"
    THEN Sub(r, "", convert_to_rst(x, which, r.cx))
    ELSE IF x.name = "parameterlist"
            /\ x.attrs["kind"] \in {"templateparam", "param", "exception"}
    THEN ParamItems(x, FindAll(x, "parameteritem"), 1, x.attrs["kind"], which, r)
    ELSE IF x.name = "simplesect" /\ x.attrs["kind"] = "see"
    THEN Sub(r, "\n\n" \o indent(r.cx[which]) \o ".. seealso:: ",
             convert_to_rst(x, which, r.cx))
    ELSE IF x.name = "ref"
    THEN Out(r, " :cpp:" \o (IF "kindref" \in DOMAIN x.attrs
                                /\ x.attrs["kindref"] = "member"
                             THEN "member" ELSE "any")
                \o ":^" \o TextOf(x) \o "^ ")
    ELSE IF x.name = "emphasis" THEN Out(r, " *" \o TextOf(x) \o "*")
    ELSE IF x.name = "bold"
    THEN Out(r, "\n\n" \o indent(r.cx[which]) \o "**" \o TextOf(x) \o "**")
    ELSE IF x.name = "compoundname"
    THEN Out(r, PySliceFrom(TextOf(x), RFind(TextOf(x), "::") + 2))
    ELSE IF x.name = "ulink"
    THEN IF "url" \notin DOMAIN x.attrs THEN [r EXCEPT !.exc = "KeyError"]
         ELSE Out(r, " ^" \o TextOf(x) \o " <" \o x.attrs["url"] \o ">^_")
    ELSE IF x.name = "itemizedlist"
    THEN Sub(r, "\n", convert_to_rst(x, which, r.cx))
    ELSE IF x.name = "listitem"
    THEN Sub(r, "\n" \o indent(r.cx[which]) \o "* ", convert_to_rst(x, which, r.cx))
    ELSE IF x.name = "programlisting"
    THEN Sub(r, "\n\n" \o indent(r.cx[which]) \o ".. code-block::\n",
             convert_to_rst(x, "D", r.cx))
    ELSE IF x.name = "codeline"
    THEN Sub(r, "\n" \o indent(r.cx[which]), convert_to_rst(x, "D", r.cx))
    ELSE IF x.name = "highlight" THEN Sub(r, "", convert_to_rst(x, "D", r.cx))
    ELSE IF x.name = "sp" THEN Out(r, " ")
    ELSE r

RECURSIVE RenderChildren(_, _, _, _)
\* the loop of line 561, from child i; an exception ends it
RenderChildren(xs, i, which, r) ==
    IF r.exc # "" \/ i > Len(xs) THEN r
    ELSE RenderChildren(xs, i + 1, which, RenderChild(xs[i], which, r))

\* line 699, for the list after lines 697-698
PopTag(which, r, context) ==
    IF Len(context) = 0
    THEN Result(r.out, [r.cx EXCEPT ![which] = context], "IndexError")
    ELSE Result(r.out \o (IF context[Len(context)] = "itemizedlist"
                          THEN "\n\n" \o indent(SubSeq(context, 1, Len(context) - 1))
                          ELSE ""),
                [r.cx EXCEPT ![which] = SubSeq(context, 1, Len(context) - 1)], "")

\* lines 697-702, after the loop did r
Pops(which, r) ==
    IF r.exc # "" THEN r
    ELSE PopTag(which, r,
                IF Len(r.cx[which]) > 0 /\ r.cx[which][Len(r.cx[which])] = "enum"
                THEN SubSeq(r.cx[which], 1, Len(r.cx[which]) - 1)
                ELSE r.cx[which])

\* lines 536-561 for an element of kind enum
RenderEnum(x, which, pushed, n) ==
    IF n = None THEN Result("", pushed, "StopIteration")
    ELSE RenderChildren(EnumOrder(x, n, FirstNamed(x.children, "briefdescription")),
                        1, which, Result("", pushed, ""))

\* lines 536-702, the tag pushed.  The name PREFIXES of lines 538 and 545 is
\* bound nowhere: reading it raises NameError
RenderPushed(x, which, pushed) ==
    IF x.name \in {"compounddef", "memberdef"} THEN Result("", pushed, "NameError")
    ELSE IF KindIs(x, "enum")
    THEN Pops(which, RenderEnum(x, which, pushed, FirstNamed(x.children, "name")))
    ELSE Pops(which, RenderChildren(x.children, 1, which, Result("", pushed, "")))

convert_to_rst(x, which, cx) == RenderPushed(x, which, Push(cx, which, x))

(***************************************************************************)
(* The state the doxygen functions act on, as a record, and the functions  *)
(* on it.  Each returns the state after it with the exception raised ("":  *)
(* none) and the value returned.                                           *)
(***************************************************************************)
NoCaches ==
    [doxy_xml |-> <<>>, doxy_warn |-> <<>>, doxy_kind |-> <<>>,
     doxy_tparams |-> <<>>, doxy_brief |-> <<>>, doxy_returns |-> <<>>,
     doxy_is_typedef |-> <<>>, doxy_is_inherited |-> <<>>]

DoxyState ==
    [dict |-> __DOXY_DICT, inserted |-> inserted, warnings |-> __WARNINGS,
     stderr |-> stderr, opened |-> opened, raised |-> raised, lru |-> lru,
     context |-> __defaults__, listdir |-> listdir]

SetDoxyState(db) ==
    /\ __DOXY_DICT' = db.dict
    /\ inserted' = db.inserted
    /\ __WARNINGS' = db.warnings
    /\ stderr' = db.stderr
    /\ opened' = db.opened
    /\ raised' = db.raised
    /\ lru' = db.lru
    /\ __defaults__' = db.context

DoxyIdle ==
    /\ xml = <<>>
    /\ listdir = <<>>
    /\ __DOXY_DICT = <<>>
    /\ inserted = <<>>
    /\ __WARNINGS = 0
    /\ stderr = <<>>
    /\ opened = <<>>
    /\ raised = <<>>
    /\ lru = NoCaches
    /\ __defaults__ = <<>>
    /\ call = None
    /\ calls = 0

Count(f, k) == IF k \in DOMAIN f THEN f[k] ELSE 0
Bump(f, k) == Put(f, k, Count(f, k) + 1)

\* __warn(fname, msg)
__warn(db, fname, msg) ==
    [db EXCEPT !.warnings = @ + 1,
               !.stderr = Append(@, [fname |-> fname, msg |-> msg])]

ParamsText(params) == IF params = None THEN "" ELSE params[1]

\* doxy_warn(fname, name, params), behind its lru_cache
doxy_warn(db, fname, name, params) ==
    IF <<fname, name, params>> \in DOMAIN db.lru.doxy_warn THEN db
    ELSE [__warn(db, fname,
                 "no doxygen output found for " \o name \o ParamsText(params))
            EXCEPT !.lru.doxy_warn = Put(@, <<fname, name, params>>, None)]

\* the lines 333-335 and 379 without the test  not class_ in __DOXY_DICT  of
\* line 333
BeginAt_reindexing(db, xmlFiles, class_, path) ==
    IF IsFile(xmlFiles, path)
    THEN [db |-> [db EXCEPT !.opened = Bump(@, path),
                            !.dict = Put(@, class_, TagValue(Node(path, 0))),
                            !.inserted = Inserting(@, Put(db.dict, class_, NoNode),
                                                   <<class_>>)],
          phase |-> "index", class_ |-> class_, path |-> path]
    ELSE IF class_ \notin DOMAIN db.dict
    THEN [db |-> db, phase |-> "scan", class_ |-> class_, path |-> ""]
    ELSE [db |-> db, phase |-> "end", class_ |-> class_, path |-> ""]

\* the lines 333-335 and 379 of doxy_xml, for the scope class_ the walk ended
\* at and the file path of that scope: what the body does before its
\* loops.  phase "index": the class or struct file of class_ was opened and
\* its compounddef filed; "scan": the namespace files are to be read;
\* "end": neither.
BeginAt(db, xmlFiles, class_, path) ==
    IF IsFile(xmlFiles, path) /\ class_ \notin DOMAIN db.dict
    THEN [db |-> [db EXCEPT !.opened = Bump(@, path),
                            !.dict = Put(@, class_, TagValue(Node(path, 0))),
                            !.inserted = Append(@, class_)],
          phase |-> "index", class_ |-> class_, path |-> path]
    ELSE IF class_ \notin DOMAIN db.dict
    THEN [db |-> db, phase |-> "scan", class_ |-> class_, path |-> ""]
    ELSE [db |-> db, phase |-> "end", class_ |-> class_, path |-> ""]

BeginIn(db, xmlFiles, class_) ==
    BeginAt(db, xmlFiles, class_, doxy_filename(xmlFiles, class_))

\* the lines 328-335 and 379 of doxy_xml
BeginLookup(db, xmlFiles, name) ==
    IF name \in DOMAIN db.dict
    THEN [db |-> db, phase |-> "end", class_ |-> "", path |-> ""]
    ELSE BeginIn(db, xmlFiles, WalkOutward(xmlFiles, name, RFind(name, "::")))

\* one namespace file of the fallback scan (lines 383-389)
Scanned(db, path, file, dict) ==
    [db EXCEPT !.opened = Bump(@, path),
               !.dict = dict,
               !.inserted = Inserting(@, dict, MemberKeys(file.compoundname, file))]

ScanFile(db, xmlFiles, path) ==
    Scanned(db, path, xmlFiles[path], ScanMembers(db.dict, path, xmlFiles[path], 1))

\* the params of a call doxy_xml(name) or doxy_xml(name, params)
KeyParams(key) == IF Len(key) > 1 THEN key[2] ELSE None

\* the end of a call of doxy_xml whose body ran and left db: an exception
\* of the body goes on, KeyError is counted, a value returned is cached
\* (lru_cache keeps no exception)
EndWith(db, key, r, bodyExc) ==
    IF bodyExc # "" THEN [db |-> db, exc |-> bodyExc, value |-> EmptyDictValue]
    ELSE IF r.exc # ""
    THEN [db |-> [db EXCEPT !.raised = Bump(@, <<key[1], KeyParams(key)>>)],
          exc |-> r.exc, value |-> r.value]
    ELSE [db |-> [db EXCEPT !.lru.doxy_xml = Put(@, key, r.value)],
          exc |-> "", value |-> r.value]

EndLookup(db, xmlFiles, key, bodyExc) ==
    EndWith(db, key,
            LookupResult(xmlFiles, db.dict, key[1], KeyParams(key)), bodyExc)

RECURSIVE IndexAll(_, _, _, _, _)
\* the loop over the memberdefs of a class or struct file, from memberdef i
IndexAll(dict, class_, path, file, i) ==
    IF i > Len(file.members) THEN [dict |-> dict, exc |-> ""]
    ELSE LET r == IndexMember(dict, class_, path, i, file.members[i])
         IN  IF r.exc # "" THEN r
             ELSE IndexAll(r.dict, class_, path, file, i + 1)

RECURSIVE ScanAll(_, _, _)
\* the loop over os.listdir("build/xml") (lines 380-389): todo is what is
\* left of the namespace files, in the order os.listdir gave them
ScanAll(db, xmlFiles, todo) ==
    IF todo = <<>> THEN db
    ELSE ScanAll(ScanFile(db, xmlFiles, todo[1]), xmlFiles, Tail(todo))

\* the cache of doxy_xml holds the objects of __DOXY_DICT themselves, not
\* copies: what is filed under a name is never replaced, so the value cached
\* for a call without params is that object as it is now, with what line
\* 377 has written on it since
Aliased(cache, dict) ==
    [k \in DOMAIN cache |-> IF KeyParams(k) = None THEN dict[k[1]] ELSE cache[k]]

Indexed(b, file, r) ==
    [db |-> [b.db EXCEPT !.dict = r.dict,
                        !.inserted = Inserting(@, r.dict, MemberKeys(b.class_, file)),
                        !.lru.doxy_xml = Aliased(@, r.dict)],
     exc |-> r.exc]

\* the loops of doxy_xml after the lines BeginLookup stands for
LookupLoops(b, xmlFiles) ==
    IF b.phase = "index"
    THEN Indexed(b, xmlFiles[b.path],
                 IndexAll(b.db.dict, b.class_, b.path, xmlFiles[b.path], 1))
    ELSE IF b.phase = "scan"
    THEN [db |-> ScanAll(b.db, xmlFiles, b.db.listdir), exc |-> ""]
    ELSE [db |-> b.db, exc |-> ""]

\* the body of doxy_xml up to line 389, in one piece
LookupBody(db, xmlFiles, name) ==
    LookupLoops(BeginLookup(db, xmlFiles, name), xmlFiles)

LookupEnd(b, xmlFiles, key) == EndLookup(b.db, xmlFiles, key, b.exc)

\* doxy_xml(*key), behind its lru_cache; key is <<name>> or <<name, params>>
doxy_xml(db, xmlFiles, key) ==
    IF key \in DOMAIN db.lru.doxy_xml
    THEN [db |-> db, exc |-> "", value |-> db.lru.doxy_xml[key]]
    ELSE LookupEnd(LookupBody(db, xmlFiles, key[1]), xmlFiles, key)

\* the name and the params of a call f(ymlfname, name) or f(ymlfname, name, params)
ArgName(args) == args[2]
ArgParams(args) == IF Len(args) > 2 THEN args[3] ELSE None

\* the arguments (ymlfname, name, params) a function called with args
\* passes on: three, params being None when it was called with two
Passed(args) == <<args[1], ArgName(args), ArgParams(args)>>

\* the call doxy_xml(name, params) of a function called with args
Lookup(db, xmlFiles, args) ==
    doxy_xml(db, xmlFiles, <<ArgName(args), ArgParams(args)>>)

\* the kind attribute, "friend" read as "function" (lines 414-415)
KindOf(e) == IF e.kind # "friend" THEN e.kind ELSE "function"

\* doxy_kind after its call of doxy_xml returned or raised (lines 413-418)
doxy_kind_after(xmlFiles, args, looked) ==
    IF looked.exc # "" THEN [db |-> looked.db, exc |-> looked.exc, value |-> ""]
    ELSE IF looked.value.kind = "tag"
            /\ NodeElement(xmlFiles, looked.value.node).kind # ""
    THEN [db |-> [looked.db EXCEPT !.lru.doxy_kind =
                     Put(@, args, KindOf(NodeElement(xmlFiles, looked.value.node)))],
          exc |-> "",
          value |-> KindOf(NodeElement(xmlFiles, looked.value.node))]
    ELSE [db |-> __warn(looked.db, args[1],
                        "could not determine the kind of " \o ArgName(args)),
          exc |-> "Exception", value |-> ""]

\* doxy_kind(*args), behind its lru_cache
doxy_kind(db, xmlFiles, args) ==
    IF args \in DOMAIN db.lru.doxy_kind
    THEN [db |-> db, exc |-> "", value |-> db.lru.doxy_kind[args]]
    ELSE doxy_kind_after(xmlFiles, args, Lookup(db, xmlFiles, args))

\* xml.find("definition"): the text of the first in document order, the
\* element's own or, for a compounddef, that of a memberdef under it
FindDefinition(xmlFiles, node) ==
    IF NodeElement(xmlFiles, node).definition # None
    THEN NodeElement(xmlFiles, node).definition
    ELSE IF node.idx # 0
            \/ \A i \in 1..Len(xmlFiles[node.file].members) :
                   xmlFiles[node.file].members[i].definition = None
    THEN None
    ELSE xmlFiles[node.file].members[
             CHOOSE i \in 1..Len(xmlFiles[node.file].members) :
                 /\ xmlFiles[node.file].members[i].definition # None
                 /\ \A j \in 1..(i - 1) :
                        xmlFiles[node.file].members[j].definition = None].definition

\* lines 426-428: the definition names a member of the class of name, or not
InheritedBy(name, definition) ==
    LET defn == Split(definition, " ")
        class_ == JoinWith("::", SubSeq(Split(name, "::"), 1,
                                        Len(Split(name, "::")) - 1)) \o "::"
    IN  ~StartsWith(IF Len(defn) = 1 THEN defn[1] ELSE defn[2], class_)

\* doxy_is_inherited after its call of doxy_xml (lines 425-432)
doxy_is_inherited_after(xmlFiles, args, looked) ==
    IF looked.exc # "" THEN [db |-> looked.db, exc |-> looked.exc, value |-> FALSE]
    ELSE IF /\ looked.value.kind = "tag"
            /\ FindDefinition(xmlFiles, looked.value.node) # None
    THEN [db |-> [looked.db EXCEPT !.lru.doxy_is_inherited =
                     Put(@, args,
                         InheritedBy(ArgName(args),
                                     FindDefinition(xmlFiles, looked.value.node)[1]))],
          exc |-> "",
          value |-> InheritedBy(ArgName(args),
                                FindDefinition(xmlFiles, looked.value.node)[1])]
    ELSE [db |-> __warn(looked.db, args[1],
                        "could not determine if " \o ArgName(args)
                            \o " is inherited"),
          exc |-> "Exception", value |-> FALSE]

\* doxy_is_inherited(*args), behind its lru_cache
doxy_is_inherited(db, xmlFiles, args) ==
    IF args \in DOMAIN db.lru.doxy_is_inherited
    THEN [db |-> db, exc |-> "", value |-> db.lru.doxy_is_inherited[args]]
    ELSE doxy_is_inherited_after(xmlFiles, args, Lookup(db, xmlFiles, args))

\* doxy_is_typedef after its call of doxy_xml (lines 439-443)
doxy_is_typedef_after(xmlFiles, args, looked) ==
    IF looked.exc # "" THEN [db |-> looked.db, exc |-> looked.exc, value |-> FALSE]
    ELSE IF looked.value.kind = "tag"
    THEN [db |-> [looked.db EXCEPT !.lru.doxy_is_typedef =
                     Put(@, args, NodeElement(xmlFiles, looked.value.node).kind
                                      = "typedef")],
          exc |-> "",
          value |-> NodeElement(xmlFiles, looked.value.node).kind = "typedef"]
    ELSE [db |-> __warn(looked.db, args[1],
                        "could not determine if " \o ArgName(args)
                            \o " is a typedef"),
          exc |-> "Exception", value |-> FALSE]

\* doxy_is_typedef(*args), behind its lru_cache
doxy_is_typedef(db, xmlFiles, args) ==
    IF args \in DOMAIN db.lru.doxy_is_typedef
    THEN [db |-> db, exc |-> "", value |-> db.lru.doxy_is_typedef[args]]
    ELSE doxy_is_typedef_after(xmlFiles, args, Lookup(db, xmlFiles, args))

\* the text of the first child of the element that is a type element, ""
\* without one (lines 486-489)
TypeText(e) == IF e.type = None THEN "" ELSE e.type[1]

\* doxy_returns after its call of doxy_is_typedef (lines 484-489)
doxy_returns_typed(xmlFiles, args, looked, typedef) ==
    IF typedef.exc # "" THEN [db |-> typedef.db, exc |-> typedef.exc, value |-> ""]
    ELSE [db |-> [typedef.db EXCEPT !.lru.doxy_returns =
                     Put(@, args,
                         IF typedef.value THEN ""
                         ELSE TypeText(NodeElement(xmlFiles, looked.value.node)))],
          exc |-> "",
          value |-> IF typedef.value THEN ""
                    ELSE TypeText(NodeElement(xmlFiles, looked.value.node))]

\* doxy_returns after its call of doxy_xml; line 484 passes three arguments
doxy_returns_after(xmlFiles, args, looked) ==
    IF looked.exc # "" THEN [db |-> looked.db, exc |-> looked.exc, value |-> ""]
    ELSE doxy_returns_typed(xmlFiles, args, looked,
                            doxy_is_typedef(looked.db, xmlFiles, Passed(args)))

\* doxy_returns(*args), behind its lru_cache
doxy_returns(db, xmlFiles, args) ==
    IF args \in DOMAIN db.lru.doxy_returns
    THEN [db |-> db, exc |-> "", value |-> db.lru.doxy_returns[args]]
    ELSE doxy_returns_after(xmlFiles, args, Lookup(db, xmlFiles, args))

FirstOf(S) == CHOOSE i \in S : \A j \in S : i <= j

\* xml.find("templateparamlist"): the first in document order, the
\* element's own or, for a compounddef, that of a memberdef under it
FindTemplateParamList(xmlFiles, node) ==
    IF NodeElement(xmlFiles, node).tparams # None
    THEN NodeElement(xmlFiles, node).tparams
    ELSE IF node.idx # 0
            \/ \A i \in 1..Len(xmlFiles[node.file].members) :
                   xmlFiles[node.file].members[i].tparams = None
    THEN None
    ELSE xmlFiles[node.file].members[
             FirstOf({i \in 1..Len(xmlFiles[node.file].members) :
                         xmlFiles[node.file].members[i].tparams # None})].tparams

\* one param of a templateparamlist, as doxy_tparams writes it
TParamText(x) ==
    x.type \o (IF x.declname = None THEN "" ELSE " " \o x.declname[1])
           \o (IF x.defval = None THEN "" ELSE " = " \o x.defval[1])

\* a value doxy_tparams returns, cached
TParamsReturn(db, args, value) ==
    [db |-> [db EXCEPT !.lru.doxy_tparams = Put(@, args, value)],
     exc |-> "", value |-> value]

\* lines 516-519
doxy_tparams_text(args, list, returns) ==
    IF returns.exc # "" THEN [db |-> returns.db, exc |-> returns.exc, value |-> ""]
    ELSE TParamsReturn(returns.db, args,
                       "template <"
                       \o JoinWith(", ", [i \in 1..Len(list[1]) |->
                                             TParamText(list[1][i])])
                       \o "> " \o returns.value \o " ")

\* lines 505-519, for the templateparamlist found; line 518 passes three
\* arguments
doxy_tparams_found(db, xmlFiles, args, list) ==
    IF list = None THEN TParamsReturn(db, args, "")
    ELSE doxy_tparams_text(args, list, doxy_returns(db, xmlFiles, Passed(args)))

\* doxy_tparams after its call of doxy_xml returned or raised (lines 497-519)
\* str.find gives a number, which has no find_all (line 509)
doxy_tparams_after(xmlFiles, args, looked) ==
    IF looked.exc = "KeyError" \/ (looked.exc = "" /\ looked.value.kind = "dict")
    THEN TParamsReturn(doxy_warn(looked.db, args[1], ArgName(args), ArgParams(args)),
                       args, "")
    ELSE IF looked.exc # "" THEN [db |-> looked.db, exc |-> looked.exc, value |-> ""]
    ELSE IF looked.value.kind = "str"
    THEN [db |-> looked.db, exc |-> "AttributeError", value |-> ""]
    ELSE doxy_tparams_found(looked.db, xmlFiles, args,
                            FindTemplateParamList(xmlFiles, looked.value.node))

\* doxy_tparams(*args), behind its lru_cache
doxy_tparams(db, xmlFiles, args) ==
    IF args \in DOMAIN db.lru.doxy_tparams
    THEN [db |-> db, exc |-> "", value |-> db.lru.doxy_tparams[args]]
    ELSE doxy_tparams_after(xmlFiles, args, Lookup(db, xmlFiles, args))

(***************************************************************************)
(* The string functions under test: an argument is typed, one character    *)
(* (or one word of the alphabet) at a time, around a seed, and then the    *)
(* function is called on it.                                               *)
(***************************************************************************)
MaxParamTyped == 3
ParamAlphabet == {"a", " ", "<", ">", "&", ",", "(", ")"}
ParamSeeds == {"", "std::function<void(bool&)>", "int ,  T&&"}

InitNormalize == arg \in ParamSeeds /\ typed = 0 /\ res = None /\ FilesIdle /\ DoxyIdle

TypeParamChar ==
    /\ res = None
    /\ typed < MaxParamTyped
    /\ \E c \in ParamAlphabet : arg' = arg \o c \/ arg' = c \o arg
    /\ typed' = typed + 1
    /\ UNCHANGED <<res, fileVars, doxyVars>>

\* doxy_normalize_yml_params(arg), and the same applied to its result
CallNormalize ==
    /\ res = None
    /\ res' = Some([once |-> doxy_normalize_yml_params(arg),
                    twice |-> doxy_normalize_yml_params(
                                  doxy_normalize_yml_params(arg))])
    /\ UNCHANGED <<arg, typed, fileVars, doxyVars>>

NextNormalize == TypeParamChar \/ CallNormalize

SpecNormalize == InitNormalize /\ [][NextNormalize]_vars

MaxEntryTyped == 3
EntryAlphabet == {"f", " ", "(", ")", ",", "template"}
EntrySeeds ==
    {"", "foo(int, double)", "bar", "template <typename T> foo(T x)",
     "template <typename T = decltype(f())> foo(T x)"}

InitSignature == arg \in EntrySeeds /\ typed = 0 /\ res = None /\ FilesIdle /\ DoxyIdle

TypeEntryChar ==
    /\ res = None
    /\ typed < MaxEntryTyped
    /\ \E c \in EntryAlphabet : arg' = arg \o c \/ arg' = c \o arg
    /\ typed' = typed + 1
    /\ UNCHANGED <<res, fileVars, doxyVars>>

CallExtractSignature ==
    /\ res = None
    /\ res' = Some(extract_yml_func_signature(arg))
    /\ UNCHANGED <<arg, typed, fileVars, doxyVars>>

NextSignature == TypeEntryChar \/ CallExtractSignature

SpecSignature == InitSignature /\ [][NextSignature]_vars

MaxNameTyped == 3
NameAlphabet ==
    {"operator", "*", "!", "=", "(", ")", "<", ">", " ", ":", "X", "U+0130"}

\* one typed item as characters: the word "operator", or a single character
NameItem(a) == IF a = "operator" THEN Chars(a) ELSE <<a>>

InitFilename == arg = <<>> /\ typed = 0 /\ res = None /\ FilesIdle /\ DoxyIdle

TypeNameChar ==
    /\ res = None
    /\ typed < MaxNameTyped
    /\ \E a \in NameAlphabet : arg' = arg \o NameItem(a)
    /\ typed' = typed + 1
    /\ UNCHANGED <<res, fileVars, doxyVars>>

CallFilename ==
    /\ res = None
    /\ res' = Some([once |-> filename_from_cppname(arg),
                    twice |-> filename_from_cppname(filename_from_cppname(arg))])
    /\ UNCHANGED <<arg, typed, fileVars, doxyVars>>

NextFilename == TypeNameChar \/ CallFilename

SpecFilename == InitFilename /\ [][NextFilename]_vars

(***************************************************************************)
(* Claims about the string functions.                                      *)
(***************************************************************************)
\* C8: doxy_normalize_yml_params is idempotent: normalizing a normalized
\* parameter list gives the same string
C8_NormalizeIdempotent == res # None => res[1].twice = res[1].once

\* C8's case: a parameter list that normalization changes and whose
\* "& ) >" ending was tightened to "&)>"
C8_Witness ==
    /\ res # None
    /\ res[1].once # arg
    /\ EndsWith(res[1].once, "&)>")
    /\ Len(arg) > 3

\* C9: filename_from_cppname is idempotent
C9_FilenameIdempotent == res # None => res[1].twice = res[1].once

HasChar(s, c) == \E i \in 1..Len(s) : SubSeq(s, i, i) = c
FirstIndexOf(s, c) ==
    CHOOSE i \in 1..Len(s) :
        SubSeq(s, i, i) = c /\ \A j \in 1..(i - 1) : SubSeq(s, j, j) # c
LastIndexOf(s, c) ==
    CHOOSE i \in 1..Len(s) :
        SubSeq(s, i, i) = c /\ \A j \in (i + 1)..Len(s) : SubSeq(s, j, j) # c

\* C10 as stated: an entry without "(" gives (entry, None); any other entry
\* gives the text before the first "(" as the name and the parenthesised
\* list, its contents normalized, as the parameter signature
C10_AsStated ==
    res # None =>
        IF ~HasChar(arg, "(")
        THEN res[1] = [name |-> arg, params |-> None]
        ELSE /\ res[1].name = SubSeq(arg, 1, FirstIndexOf(arg, "(") - 1)
             /\ res[1].params # None

\* C10 amended: with e the entry stripped of surrounding whitespace, an e
\* without "(" gives (e, None); an e that does not start with "template"
\* and whose last ")" follows its first "(" gives the text before the first
\* "(" as the name, and as the signature "(", the normalized text between
\* the first "(" and the last ")", and all of e from the last ")" on
C10_ExtractSignature ==
    res # None =>
        LET e == Strip(arg) IN
        /\ ~HasChar(e, "(") => res[1] = [name |-> e, params |-> None]
        /\ ( /\ HasChar(e, "(") /\ HasChar(e, ")")
             /\ FirstIndexOf(e, "(") < LastIndexOf(e, ")")
             /\ ~StartsWith(e, "template") )
           => LET l == FirstIndexOf(e, "(")
                  r == LastIndexOf(e, ")")
              IN  /\ res[1].name = SubSeq(e, 1, l - 1)
                  /\ res[1].params =
                         Some("(" \o doxy_normalize_yml_params(
                                         SubSeq(e, l + 1, r - 1))
                                  \o SubSeq(e, r, Len(e)))

\* C10's case: the entry of the claim's example, padded with a blank, split
\* into its name and its signature with the blank after the comma removed
C10_Witness ==
    /\ res # None
    /\ arg = " foo(int, double)"
    /\ res[1] = [name |-> "foo", params |-> Some("(int,double)")]

RECURSIVE MatchingGt(_, _, _)
\* the 1-based position of the ">" that closes the template clause, scanning
\* from position i at nesting depth d; 0 when the clause is not closed
MatchingGt(s, i, d) ==
    IF i > Len(s) THEN 0
    ELSE IF SubSeq(s, i, i) = "<" THEN MatchingGt(s, i + 1, d + 1)
    ELSE IF SubSeq(s, i, i) = ">"
    THEN (IF d = 1 THEN i ELSE MatchingGt(s, i + 1, d - 1))
    ELSE MatchingGt(s, i + 1, d)

\* the position of the first "(" of s after position g, 0 if there is none
ParenAfter(s, g) ==
    IF \E i \in (g + 1)..Len(s) : SubSeq(s, i, i) = "("
    THEN CHOOSE i \in (g + 1)..Len(s) :
             /\ SubSeq(s, i, i) = "("
             /\ \A j \in (g + 1)..(i - 1) : SubSeq(s, j, j) # "("
    ELSE 0

\* the token that ends just before position l: the characters after the last
\* whitespace before l
TokenBefore(s, l) ==
    LET blanks == {j \in 1..(l - 1) : IsSpace(SubSeq(s, j, j))}
        from == IF blanks = {} THEN 1
                ELSE (CHOOSE j \in blanks : \A k \in blanks : k <= j) + 1
    IN  SubSeq(s, from, l - 1)

\* an entry "template <...> name(params)": the word template, a clause in
\* angle brackets that is closed, whitespace, and a name that the
\* parameter list follows at once
TemplateEntry(e) ==
    /\ StartsWith(e, "template <")
    /\ MatchingGt(e, 10, 0) > 0
    /\ ParenAfter(e, MatchingGt(e, 10, 0)) > MatchingGt(e, 10, 0) + 2
    /\ IsSpace(SubSeq(e, MatchingGt(e, 10, 0) + 1, MatchingGt(e, 10, 0) + 1))
    /\ ~IsSpace(SubSeq(e, ParenAfter(e, MatchingGt(e, 10, 0)) - 1,
                          ParenAfter(e, MatchingGt(e, 10, 0)) - 1))
    /\ HasChar(SubSeq(e, ParenAfter(e, MatchingGt(e, 10, 0)), Len(e)), ")")

\* C11: for an entry "template <...> name(params)" extract_yml_func_signature
\* returns the token just before the parameter list as the name, and a
\* parameter signature that is not None
C11_TemplateBareName ==
    (res # None /\ TemplateEntry(Strip(arg))) =>
        /\ res[1].name =
               TokenBefore(Strip(arg),
                           ParenAfter(Strip(arg), MatchingGt(Strip(arg), 10, 0)))
        /\ res[1].params # None

(***************************************************************************)
(* __write_file_if_changed under test: any file names and contents, over   *)
(* any files that are there before.                                        *)
(***************************************************************************)
MaxWrites == 3
WriteNames == {"source/_generated/a.rst", "source/_generated/b.rst"}
WriteContents == {"", "a\n", "a\r\n", "b"}
WriteEntries == {NoFile, Directory} \cup {RegularFile(b) : b \in WriteContents}

InitWrite ==
    /\ arg = "" /\ typed = 0 /\ res = None
    /\ fs \in [WriteNames -> WriteEntries]
    /\ pc = "run"
    /\ __REWRITES_ATTEMPTED = 0
    /\ __REWRITES_ACTUAL = 0
    /\ __RST_FILES_WRITTEN = {}
    /\ stdout = <<>> /\ yml = <<>> /\ queue = <<>> /\ emitted = <<>> /\ runs = 0
    /\ DoxyIdle

CallWriteFile(fname, contents) ==
    /\ pc = "run"
    /\ __REWRITES_ATTEMPTED < MaxWrites
    /\ SetFileState(__write_file_if_changed(FileState, fname, contents))
    /\ UNCHANGED <<strVars, doxyVars, yml, queue, emitted, runs>>

NextWrite == \E fname \in WriteNames, contents \in WriteContents :
                 CallWriteFile(fname, contents)

SpecWrite == InitWrite /\ [][NextWrite]_vars

\* C1: a call of __write_file_if_changed on a regular file whose bytes are
\* the new content leaves the file as it is and does not count a rewrite;
\* on a missing file or one with other bytes it leaves exactly the new
\* content in the file and counts one rewrite
C1_WriteIfChanged ==
    [][\A fname \in WriteNames, contents \in WriteContents :
          (CallWriteFile(fname, contents) /\ fs[fname].kind # "dir") =>
              IF fs[fname] = RegularFile(contents)
              THEN /\ fs'[fname] = fs[fname]
                   /\ __REWRITES_ACTUAL' = __REWRITES_ACTUAL
              ELSE /\ fs'[fname] = RegularFile(contents)
                   /\ __REWRITES_ACTUAL' = __REWRITES_ACTUAL + 1]_vars

(***************************************************************************)
(* The doxygen functions under test: calls in any order, with any of the   *)
(* arguments below, over any subset of the files of XmlUniverse.  A call   *)
(* of a function that reaches the body of doxy_xml is a frame: it begins,  *)
(* the loops of doxy_xml take a step per memberdef of a class file and per *)
(* namespace file, and it ends.                                            *)
(***************************************************************************)
MemberDef(name, kind, prot, type, tparams, params, argsstring) ==
    [name |-> name, kind |-> kind, prot |-> prot, type |-> type,
     tparams |-> tparams, params |-> params, const |-> "", noexcept |-> "",
     argsstring |-> argsstring, brief |-> None, definition |-> None]

CompoundDef(compoundname, kind, members) ==
    [compoundname |-> compoundname, kind |-> kind, members |-> members,
     type |-> None, tparams |-> None, brief |-> None, definition |-> None]

TParam(type) == [type |-> type, declname |-> None, defval |-> None]

\* an element with its briefdescription: one para of text, or nothing
Brief(text) ==
    Tag("briefdescription", <<>>,
        IF text = "" THEN <<>> ELSE <<Tag("para", <<>>, <<Text(text)>>)>>)
Briefly(e, text) == [e EXCEPT !.brief = Some(Brief(text))]

\* an element with its definition element
Defined(e, text) == [e EXCEPT !.definition = Some(text)]

\* the struct ns::A::B inside the class ns::A inside the namespace ns; as
\* for FroidurePin::minimal_factorisation, the function f is in the
\* doxygen output twice; g of the class and hidden of the namespace are
\* private; the variable v of the class ns::D is in the output twice; the
\* namespace ns::detail has a file of its own; v of
\* ns::A has its definition, h of ns::A::B that of a base class.  Every
\* element has the id attribute doxygen gives it, here its file and the
\* place it has there (ElementId).
XmlUniverse ==
    [path \in {"build/xml/classns_1_1_a.xml",
               "build/xml/structns_1_1_a_1_1_b.xml",
               "build/xml/classns_1_1_d.xml",
               "build/xml/namespacens.xml",
               "build/xml/namespacens_1_1detail.xml"} |->
        CASE path = "build/xml/classns_1_1_a.xml" ->
                Briefly(CompoundDef("ns::A", "class",
                    << Briefly(MemberDef("f", "function", "public", Some("void"),
                                 Some(<<TParam("typename T")>>), <<"int">>, "(int x)"),
                               "Does f."),
                       Briefly(Defined(MemberDef("v", "variable", "public",
                                                 Some("int"), None, <<>>, ""),
                                       "int ns::A::v"), "A value."),
                       MemberDef("g", "function", "private", Some("void"),
                                 None, <<>>, "()"),
                       Briefly(MemberDef("f", "function", "public", Some("void"),
                                 Some(<<TParam("typename T")>>), <<"int ">>, "(int x)"),
                               "Does f again.") >>), "A class.")
          [] path = "build/xml/structns_1_1_a_1_1_b.xml" ->
                CompoundDef("ns::A::B", "struct",
                    << Briefly(Defined(MemberDef("h", "function", "public",
                                                 Some("bool"), None, <<>>, "() const"),
                                       "bool ns::Base::h"), "") >>)
          [] path = "build/xml/classns_1_1_d.xml" ->
                CompoundDef("ns::D", "class",
                    << Briefly(MemberDef("v", "variable", "public", Some("int"),
                                 None, <<>>, ""), "A value."),
                       Briefly(MemberDef("v", "variable", "public", Some("int"),
                                 None, <<>>, ""), "A value.") >>)
          [] path = "build/xml/namespacens_1_1detail.xml" ->
                CompoundDef("ns::detail", "namespace",
                    << MemberDef("helper", "function", "public", Some("void"),
                                 None, <<>>, "()") >>)
          [] OTHER ->
                CompoundDef("ns", "namespace",
                    << MemberDef("free", "function", "public", Some("void"),
                                 None, <<"int">>, "(int)"),
                       MemberDef("hidden", "function", "private", Some("void"),
                                 None, <<>>, "()") >>)]

MaxCalls == 2
DoxyFunctions == {"doxy_xml", "doxy_kind", "doxy_tparams", "doxy_is_inherited"}
YmlNames == {"yml/a.yml"}
LookupParams == {None, Some("(int)"), Some("kind")}

\* the calls the program makes: doxy_xml(class_), doxy_kind(ymlfname, name),
\* and doxy_kind and doxy_tparams (ymlfname, thing_name, thing_params); and
\* the calls of doxy_is_inherited, which the program does not call itself,
\* a call of doxy_xml with params that name an attribute, and a call of
\* doxy_tparams with two arguments
CallArgs(fn) ==
    LET ofMember == {<<y, n, p>> : y \in YmlNames, n \in MemberNames,
                                   p \in LookupParams}
    IN  IF fn = "doxy_xml"
        THEN {<<n>> : n \in PrimaryNames} \cup {<<"ns::A::v", Some("kind")>>}
        ELSE IF fn = "doxy_kind"
        THEN {<<y, n>> : y \in YmlNames, n \in PrimaryNames} \cup ofMember
        ELSE IF fn = "doxy_tparams"
        THEN {<<y, "ns::A">> : y \in YmlNames} \cup ofMember
        ELSE ofMember

\* the arguments of the call of doxy_xml a call fn(*args) makes first
LookupKey(fn, args) ==
    IF fn = "doxy_xml" THEN args ELSE <<ArgName(args), ArgParams(args)>>

InitDoxy ==
    /\ arg = "" /\ typed = 0 /\ res = None
    /\ FilesIdle
    /\ xml \in {[path \in S |-> XmlUniverse[path]] : S \in SUBSET DOMAIN XmlUniverse}
    /\ listdir \in Listings(NamespaceFiles(xml))
    /\ __DOXY_DICT = <<>>
    /\ inserted = <<>>
    /\ __WARNINGS = 0
    /\ stderr = <<>>
    /\ opened = <<>>
    /\ raised = <<>>
    /\ lru = NoCaches
    /\ __defaults__ = <<>>
    /\ call = None
    /\ calls = 0

Frame(fn, args, phase, class_, path, todo) ==
    Some([fn |-> fn, args |-> args, phase |-> phase, class_ |-> class_,
          path |-> path, idx |-> 1, todo |-> todo, exc |-> ""])

\* the frame of a call whose body of doxy_xml started as b says
Started(fn, args, b, todo) ==
    Frame(fn, args,
          IF \/ b.phase = "scan" /\ todo = <<>>
             \/ b.phase = "index" /\ Len(xml[b.path].members) = 0
          THEN "end" ELSE b.phase,
          b.class_, b.path, IF b.phase = "scan" THEN todo ELSE <<>>)

Start(fn, args, b) ==
    /\ call' = Started(fn, args, b, listdir)
    /\ SetDoxyState(b.db)

\* a call begins: a hit in the function's own cache or in doxy_xml's ends it
\* at once ("hit", "xmlhit"); otherwise the body of doxy_xml starts
CallBegin(fn, args) ==
    /\ call = None
    /\ calls < MaxCalls
    /\ calls' = calls + 1
    /\ IF fn # "doxy_xml" /\ args \in DOMAIN lru[fn]
       THEN /\ call' = Frame(fn, args, "hit", "", "", <<>>)
            /\ UNCHANGED <<__DOXY_DICT, inserted, __WARNINGS, stderr, opened, raised, lru,
                           __defaults__>>
       ELSE IF LookupKey(fn, args) \in DOMAIN lru.doxy_xml
       THEN /\ call' = Frame(fn, args, "xmlhit", "", "", <<>>)
            /\ UNCHANGED <<__DOXY_DICT, inserted, __WARNINGS, stderr, opened, raised, lru,
                           __defaults__>>
       ELSE Start(fn, args, BeginLookup(DoxyState, xml, LookupKey(fn, args)[1]))
    /\ UNCHANGED <<xml, listdir, strVars, fileVars>>

\* the frame after memberdef idx of the file being indexed
Stepped(c, r) ==
    Some([c EXCEPT !.idx = @ + 1,
                   !.exc = r.exc,
                   !.phase = IF r.exc # "" \/ c.idx = Len(xml[c.path].members)
                             THEN "end" ELSE "index"])

IndexedOne(c, r) ==
    /\ __DOXY_DICT' = r.dict
    /\ lru' = [lru EXCEPT !.doxy_xml = Aliased(@, r.dict)]
    /\ inserted' = Inserting(inserted, r.dict,
                             <<c.class_ \o "::" \o xml[c.path].members[c.idx].name>>)
    /\ call' = Stepped(c, r)

\* one memberdef of the class or struct file being indexed
IndexStep ==
    /\ call # None
    /\ call[1].phase = "index"
    /\ IndexedOne(call[1],
                  IndexMember(__DOXY_DICT, call[1].class_, call[1].path,
                              call[1].idx, xml[call[1].path].members[call[1].idx]))
    /\ UNCHANGED <<xml, listdir, __WARNINGS, stderr, opened, raised, __defaults__,
                   calls, strVars, fileVars>>

\* one namespace file of the fallback scan, the next of the listing
ScanStep ==
    /\ call # None
    /\ call[1].phase = "scan"
    /\ SetDoxyState(ScanFile(DoxyState, xml, call[1].todo[1]))
    /\ call' = Some([call[1] EXCEPT !.todo = Tail(@),
                         !.phase = IF Len(call[1].todo) = 1
                                   THEN "end" ELSE "scan"])
    /\ UNCHANGED <<xml, listdir, calls, strVars, fileVars>>

\* the call of doxy_xml of the frame, its body done
FrameLookup(c) ==
    IF c.phase = "xmlhit"
    THEN [db |-> DoxyState, exc |-> "",
          value |-> lru.doxy_xml[LookupKey(c.fn, c.args)]]
    ELSE EndLookup(DoxyState, xml, LookupKey(c.fn, c.args), c.exc)

\* what the function of the frame does after its call of doxy_xml
AfterLookup(c, looked) ==
    IF c.fn = "doxy_xml" THEN looked
    ELSE IF c.fn = "doxy_kind" THEN doxy_kind_after(xml, c.args, looked)
    ELSE IF c.fn = "doxy_is_inherited" THEN doxy_is_inherited_after(xml, c.args, looked)
    ELSE doxy_tparams_after(xml, c.args, looked)

Return(c, r) ==
    /\ SetDoxyState(r.db)
    /\ res' = Some([fn |-> c.fn, args |-> c.args, exc |-> r.exc, value |-> r.value])

\* the call returns or raises; res is what its caller sees
CallEnd ==
    /\ call # None
    /\ call[1].phase \in {"hit", "xmlhit", "end"}
    /\ IF call[1].phase = "hit"
       THEN Return(call[1], [db |-> DoxyState, exc |-> "",
                             value |-> lru[call[1].fn][call[1].args]])
       ELSE Return(call[1], AfterLookup(call[1], FrameLookup(call[1])))
    /\ call' = None
    /\ UNCHANGED <<xml, listdir, calls, arg, typed, fileVars>>

NextDoxy ==
    \/ \E fn \in DoxyFunctions : \E args \in CallArgs(fn) : CallBegin(fn, args)
    \/ IndexStep
    \/ ScanStep
    \/ CallEnd

SpecDoxy == InitDoxy /\ [][NextDoxy]_vars

(***************************************************************************)
(* convert_to_rst under test: an element tree is built around a seed, by   *)
(* wrapping it in a parent or giving its root another child, and is then   *)
(* rendered, with the context list arg.context or with the default list.   *)
(***************************************************************************)
MaxBuilt == 2
MaxRenders == 2

KindAttr(kind) == [kind |-> kind]

RenderSeeds ==
    { Tag("para", <<>>, <<>>),
      Tag("para", <<>>, <<Text("x")>>),
      Tag("itemizedlist", <<>>,
          <<Tag("listitem", <<>>,
                <<Tag("itemizedlist", <<>>, <<Tag("listitem", <<>>, <<Text("a")>>)>>)>>)>>),
      Tag("programlisting", <<>>,
          <<Tag("codeline", <<>>, <<Tag("highlight", <<>>, <<Text("f();")>>)>>)>>),
      Tag("memberdef", KindAttr("enum"),
          <<Tag("enumvalue", <<>>, <<Tag("name", <<>>, <<Text("v")>>)>>),
            Tag("briefdescription", <<>>, <<Tag("para", <<>>, <<Text("An enum.")>>)>>),
            Tag("name", <<>>, <<Text("E")>>)>>),
      Tag("sectiondef", KindAttr("enum"),
          <<Tag("enumvalue", <<>>, <<Tag("name", <<>>, <<Text("v")>>)>>),
            Tag("briefdescription", <<>>, <<Tag("para", <<>>, <<Text("An enum.")>>)>>),
            Tag("name", <<>>, <<Text("E")>>)>>) }

RenderContexts == {<<>>, <<"detaileddescription">>, <<"memberdef", "enum">>}

\* the parents a tree is wrapped in: <<name, attrs>>
WrapTags ==
    { <<"para", <<>>>>, <<"briefdescription", <<>>>>, <<"listitem", <<>>>>,
      <<"itemizedlist", <<>>>>, <<"simplesect", KindAttr("return")>>,
      <<"sectiondef", KindAttr("enum")>>, <<"parameterdescription", <<>>>>,
      <<"enum", <<>>>> }

\* the children a root is given
ChildLeaves ==
    { Text("Text"), Tag("sp", <<>>, <<>>), Tag("name", <<>>, <<Text("N")>>),
      Tag("enum", <<>>, <<>>), Tag("simplesect", <<>>, <<Text("s")>>) }

InitRender ==
    /\ arg \in [xml : RenderSeeds, context : RenderContexts]
    /\ typed = 0
    /\ res = None
    /\ FilesIdle
    /\ DoxyIdle

WrapElement(tag) ==
    /\ calls = 0
    /\ typed < MaxBuilt
    /\ typed' = typed + 1
    /\ arg' = [arg EXCEPT !.xml = Tag(tag[1], tag[2], <<@>>)]
    /\ UNCHANGED <<res, fileVars, doxyVars>>

AppendChild(leaf) ==
    /\ calls = 0
    /\ typed < MaxBuilt
    /\ typed' = typed + 1
    /\ arg' = [arg EXCEPT !.xml.children = Append(@, leaf)]
    /\ UNCHANGED <<res, fileVars, doxyVars>>

\* what a call left: the list it worked on before and after, and its result
Rendered(which, before, r) ==
    /\ res' = Some([which |-> which, before |-> before, after |-> r.cx[which],
                    out |-> r.out, exc |-> r.exc])
    /\ arg' = [arg EXCEPT !.context = r.cx.L]
    /\ __defaults__' = r.cx.D

\* convert_to_rst(arg.xml, arg.context)
CallConvert ==
    /\ calls < MaxRenders
    /\ calls' = calls + 1
    /\ Rendered("L", arg.context,
                convert_to_rst(arg.xml, "L", [D |-> __defaults__, L |-> arg.context]))
    /\ UNCHANGED <<typed, fileVars, xml, listdir, __DOXY_DICT, inserted, __WARNINGS, stderr, opened,
                   raised, lru, call>>

\* convert_to_rst(arg.xml)
CallConvertDefault ==
    /\ calls < MaxRenders
    /\ calls' = calls + 1
    /\ Rendered("D", __defaults__,
                convert_to_rst(arg.xml, "D", [D |-> __defaults__, L |-> arg.context]))
    /\ UNCHANGED <<typed, fileVars, xml, listdir, __DOXY_DICT, inserted, __WARNINGS, stderr, opened,
                   raised, lru, call>>

NextRender ==
    \/ \E tag \in WrapTags : WrapElement(tag)
    \/ \E leaf \in ChildLeaves : AppendChild(leaf)
    \/ CallConvert
    \/ CallConvertDefault

SpecRender == InitRender /\ [][NextRender]_vars

\* C4: after convert_to_rst is done with a tree, the context list it worked
\* on has the depth and the contents it had before the call
C4_ContextRestored == res # None => res[1].after = res[1].before

\* the children of x with a tag name
ChildrenNamed(x, name) ==
    {i \in 1..Len(x.children) : x.children[i].name = name}

\* C12: a descriptor of kind enum with a name among its children, in whatever
\* order they are, is rendered, and its name and its brief description (if it
\* has one) come before the first enumerator entry of the output
C12_EnumNameFirst ==
    (res # None /\ KindIs(arg.xml, "enum") /\ ChildrenNamed(arg.xml, "name") # {}) =>
        /\ res[1].exc = ""
        /\ Find(res[1].out, ".. cpp:enumerator::") # -1 =>
               /\ Find(res[1].out, "E") # -1
               /\ Find(res[1].out, "E") < Find(res[1].out, ".. cpp:enumerator::")
               /\ ChildrenNamed(arg.xml, "briefdescription") # {} =>
                      /\ Find(res[1].out, "An enum.") # -1
                      /\ Find(res[1].out, "An enum.")
                             < Find(res[1].out, ".. cpp:enumerator::")

(***************************************************************************)
(* doxy_brief, and the functions that turn a page specification into the   *)
(* pages of source/_generated.  A page specification is what yaml.load     *)
(* makes of a file of yml: the name of a symbol, and None or the named     *)
(* sections under it; a section holds None or a list, which is a           *)
(* description (a list of one string) or not, and then the entries.        *)
(***************************************************************************)
\* the except clause of doxy_brief (lines 404-406)
doxy_brief_none(db, args) ==
    [db |-> [doxy_warn(db, args[1], ArgName(args), ArgParams(args))
                EXCEPT !.lru.doxy_brief = Put(@, args, None)],
     exc |-> "", value |-> None]

\* doxy_brief after convert_to_rst returned or raised: the default list of
\* convert_to_rst is as that call left it
doxy_brief_rendered(db, args, r) ==
    IF r.exc # "" THEN doxy_brief_none([db EXCEPT !.context = r.cx.D], args)
    ELSE [db |-> [db EXCEPT !.context = r.cx.D,
                            !.lru.doxy_brief = Put(@, args, Some(r.out))],
          exc |-> "", value |-> Some(r.out)]

\* lines 401-403, for the first briefdescription among the children
doxy_brief_found(db, args, brief) ==
    IF brief = None THEN doxy_brief_none(db, args)
    ELSE doxy_brief_rendered(db, args,
             convert_to_rst(brief[1], "D", [D |-> db.context, L |-> <<>>]))

\* doxy_brief after its call of doxy_xml returned or raised; the children
\* of a dict of signatures are strings, and those of a string are its
\* characters, which have no name
doxy_brief_after(xmlFiles, args, looked) ==
    IF looked.exc # "" THEN doxy_brief_none(looked.db, args)
    ELSE IF looked.value.kind # "tag" THEN doxy_brief_none(looked.db, args)
    ELSE doxy_brief_found(looked.db, args,
                          NodeElement(xmlFiles, looked.value.node).brief)

\* doxy_brief(*args), behind its lru_cache
doxy_brief(db, xmlFiles, args) ==
    IF args \in DOMAIN db.lru.doxy_brief
    THEN [db |-> db, exc |-> "", value |-> db.lru.doxy_brief[args]]
    ELSE doxy_brief_after(xmlFiles, args, Lookup(db, xmlFiles, args))

_COPYRIGHT_NOTICE ==
    ".. Copyright (c) 2019-22, J. D. Mitchell\n\n"
    \o "   Distributed under the terms of the GPL license version 3.\n\n"
    \o "   The full license is in the file LICENSE, distributed with this software.\n\n"
    \o "   This file was auto-generated by docs/generate_from_yml.py, do not edit.\n"

Section(subname, things) == [subname |-> subname, things |-> things]
Things(desc, members) == Some([desc |-> desc, members |-> members])
Page(name, sections) == [name |-> name, sections |-> sections]

\* things[0] of a list without items raises IndexError
NoThings(sect) == sect.things[1].desc = None /\ sect.things[1].members = <<>>

\* filename_from_cppname(name) for a string of ASCII
FilenameOf(name) == JoinPieces(filename_from_cppname(Chars(name)), 1, "")

overview_filename(name) == "source/_generated/" \o FilenameOf(name) \o ".rst"

subpage_filename(class_, name) ==
    "source/_generated/" \o FilenameOf(class_ \o "::" \o name) \o ".rst"

strip_libsemigroups_prefix(name) ==
    IF Len(name) = 0 THEN name
    ELSE IF Split(name, "::")[1] = "libsemigroups"
    THEN JoinWith("::", Tail(Split(name, "::")))
    ELSE name

unqualified_name(name) ==
    IF Len(name) = 0 THEN name
    ELSE Split(name, "::")[Len(Split(name, "::"))]

RECURSIVE Repeated(_, _)
Repeated(sym, n) == IF n <= 0 THEN "" ELSE sym \o Repeated(sym, n - 1)

rst_section(name, sym) == "\n" \o name \o "\n" \o Repeated(sym, Len(name)) \o "\n"

rst_doxy(kind, class_, yml_entry) ==
    IF yml_entry # None
    THEN "\n.. doxygen" \o kind \o ":: " \o class_ \o "::" \o yml_entry[1]
         \o "\n   :project: libsemigroups\n"
    ELSE "\n.. doxygen" \o kind \o ":: " \o class_
         \o "\n   :project: libsemigroups\n"

\* the characters from the space to the tilde in the order of their code
\* points, U+0060 left out
CodePointOrder ==
    " !\"#$%&'()*+,-./0123456789:;<=>?@ABCDEFGHIJKLMNOPQRSTUVWXYZ[\\]^_"
    \o "abcdefghijklmnopqrstuvwxyz{|}~"

Ord(c) == CHOOSE i \in 1..Len(CodePointOrder) : SubSeq(CodePointOrder, i, i) = c

RECURSIVE StrLess(_, _)
\* a < b for two strings
StrLess(a, b) ==
    IF Len(b) = 0 THEN FALSE
    ELSE IF Len(a) = 0 THEN TRUE
    ELSE IF SubSeq(a, 1, 1) = SubSeq(b, 1, 1) THEN StrLess(Tail(a), Tail(b))
    ELSE Ord(SubSeq(a, 1, 1)) < Ord(SubSeq(b, 1, 1))

RECURSIVE InsertSorted(_, _)
InsertSorted(x, items) ==
    IF items = <<>> THEN <<x>>
    ELSE IF StrLess(x, items[1]) THEN <<x>> \o items
    ELSE <<items[1]>> \o InsertSorted(x, Tail(items))

RECURSIVE sorted(_)
\* sorted(items) for a list of strings
sorted(items) ==
    IF items = <<>> THEN <<>> ELSE InsertSorted(items[1], sorted(Tail(items)))

\* re.sub("<", r"\<", thing, 1)
SubFirstLess(thing) ==
    IF Find(thing, "<") = -1 THEN thing
    ELSE PySlice(thing, 0, Find(thing, "<")) \o "\\<"
         \o PySliceFrom(thing, Find(thing, "<") + 1)

(***************************************************************************)
(* compare_yml_to_doxy                                                     *)
(***************************************************************************)
RECURSIVE ChainEntries(_, _)
\* lines 196-199: the entries of the sections that are strings, in order
ChainEntries(sections, i) ==
    IF i > Len(sections) THEN <<>>
    ELSE sections[i].things[1].members \o ChainEntries(sections, i + 1)

\* lines 200-203, for one entry
YmlKey(class_, sig) == class_ \o "::" \o sig.name \o ParamsText(sig.params)

\* the keys of the dict yml of lines 193-204
YmlKeys(page) ==
    {page.name}
    \cup (IF page.sections = None THEN {}
          ELSE {YmlKey(page.name, extract_yml_func_signature(
                                      ChainEntries(page.sections[1], 1)[i])) :
                   i \in 1..Len(ChainEntries(page.sections[1], 1))})

\* whether doxy_xml files the memberdef under a parameter signature
FiledBySignature(m) ==
    /\ m.prot = "" \/ m.prot = "public"
    /\ m.kind = "" \/ m.kind = "function" \/ m.kind = "friend"

\* the first memberdef of its file that was filed under sig with the name
\* of the memberdef at node
FirstFiled(file, name, sig) ==
    FirstOf({i \in 1..Len(file.members) :
                /\ file.members[i].name = name
                /\ FiledBySignature(file.members[i])
                /\ ParamSignature(file.members[i]) = sig})

Filed(xmlFiles, sigs, s) ==
    FirstFiled(xmlFiles[sigs[s].file],
               xmlFiles[sigs[s].file].members[sigs[s].idx].name, s)

RECURSIVE SigsInOrder(_, _)
\* the keys of a dict of signatures, in the order they were inserted
SigsInOrder(xmlFiles, sigs) ==
    IF DOMAIN sigs = {} THEN <<>>
    ELSE LET first == CHOOSE s \in DOMAIN sigs : \A t \in DOMAIN sigs :
                          Filed(xmlFiles, sigs, s) <= Filed(xmlFiles, sigs, t)
         IN  <<first>>
             \o SigsInOrder(xmlFiles, [t \in DOMAIN sigs \ {first} |-> sigs[t]])

\* lines 211-216, for one item of the dict
NamesUnder(xmlFiles, k, v) ==
    IF v.kind = "dict"
    THEN [j \in 1..Len(SigsInOrder(xmlFiles, v.sigs)) |->
             k \o SigsInOrder(xmlFiles, v.sigs)[j]]
    ELSE <<k>>

\* lines 217-220
Expected(class_, x) ==
    /\ Find(x, "~" \o unqualified_name(class_)) = -1
    /\ Find(x, "::::") = -1
    /\ ~EndsWith(x, "= 0")

RECURSIVE DoxyNames(_, _, _, _)
\* the list doxy of lines 205-220, from item i of the dict on
DoxyNames(db, xmlFiles, class_, i) ==
    IF i > Len(db.inserted) THEN <<>>
    ELSE (IF StartsWith(db.inserted[i], class_ \o "::")
          THEN SelectSeq(NamesUnder(xmlFiles, db.inserted[i],
                                    db.dict[db.inserted[i]]),
                         LAMBDA x : Expected(class_, x))
          ELSE <<>>)
         \o DoxyNames(db, xmlFiles, class_, i + 1)

RECURSIVE WarnMissing(_, _, _, _, _)
\* lines 221-227
WarnMissing(db, ymlfname, names, keys, i) ==
    IF i > Len(names) THEN db
    ELSE WarnMissing(IF names[i] \in keys THEN db
                     ELSE __warn(db, ymlfname,
                                 "missing doc, found \"" \o names[i]
                                 \o "\" in doxygen output but not in yml file"),
                     ymlfname, names, keys, i + 1)

\* compare_yml_to_doxy after its call of doxy_xml returned or raised; the
\* chain of line 197 cannot iterate the None of a section without entries
compare_yml_to_doxy_after(xmlFiles, ymlfname, page, looked) ==
    IF looked.exc # "" THEN [db |-> looked.db, exc |-> ""]
    ELSE IF /\ page.sections # None
            /\ \E i \in 1..Len(page.sections[1]) : page.sections[1][i].things = None
    THEN [db |-> looked.db, exc |-> "TypeError"]
    ELSE [db |-> WarnMissing(looked.db, ymlfname,
                             DoxyNames(looked.db, xmlFiles, page.name, 1),
                             YmlKeys(page), 1),
          exc |-> ""]

compare_yml_to_doxy(db, xmlFiles, ymlfname, page) ==
    compare_yml_to_doxy_after(xmlFiles, ymlfname, page,
                              doxy_xml(db, xmlFiles, <<page.name>>))

(***************************************************************************)
(* rst_generate_overview and rst_generate_subpages act on the state m of   *)
(* a run: the state of the doxygen functions (db), that of the file        *)
(* functions (st), the calls of __write_file_if_changed so far (emitted)   *)
(* and the exception on its way up (exc, "": none).                        *)
(***************************************************************************)
Emitted(m, fname, after) ==
    [m EXCEPT !.st = after,
              !.emitted = Append(@, [fname |-> fname,
                                     rewritten |-> after.actual > m.st.actual]),
              !.exc = IF after.pc = "raised" THEN "IsADirectoryError" ELSE ""]

\* __write_file_if_changed(fname, contents) in a run
Emit(m, fname, contents) ==
    Emitted(m, fname, __write_file_if_changed(m.st, fname, contents))

TableHeader == ".. list-table::\n   :widths: 50 50\n   :header-rows: 0\n\n"

\* "%s" % x for what doxy_brief returned
BriefText(value) == IF value = None THEN "None" ELSE value[1]

\* lines 782-797
RowText(title, tparams, thing, brief) ==
    IF title # ""
    THEN "   * - :cpp:member:^" \o title \o " <" \o tparams \o thing
         \o ">^\n     - " \o BriefText(brief) \o "\n"
    ELSE "   * - :cpp:member:^" \o thing \o "^\n     - " \o BriefText(brief) \o "\n"

OverviewRowBriefed(acc, title, tparams, thing, br) ==
    [acc EXCEPT !.db = br.db,
                !.out = @ \o RowText(title, tparams, thing, br.value)]

\* lines 778-797, after doxy_tparams returned or raised
OverviewRowTitled(acc, xmlFiles, args, title, thing, tp) ==
    IF tp.exc # "" THEN [acc EXCEPT !.db = tp.db, !.exc = tp.exc]
    ELSE OverviewRowBriefed(acc,
                            IF tp.value # "" THEN SubFirstLess(thing) ELSE title,
                            tp.value, thing, doxy_brief(tp.db, xmlFiles, args))

\* lines 764-777, for the name and the signature of the entry
OverviewRowSigned(acc, xmlFiles, ymlfname, name, thing, sig) ==
    OverviewRowTitled(acc, xmlFiles,
        <<ymlfname, name \o "::" \o sig.name, sig.params>>,
        IF thing = unqualified_name(name) \o "()" THEN thing ELSE "",
        IF thing = unqualified_name(name) \o "()"
        THEN sig.name \o "::" \o thing ELSE thing,
        doxy_tparams(acc.db, xmlFiles,
                     <<ymlfname, name \o "::" \o sig.name, sig.params>>))

\* one turn of the loop of line 760
OverviewRow(acc, xmlFiles, ymlfname, name, thing) ==
    OverviewRowSigned(acc, xmlFiles, ymlfname, name, thing,
                      extract_yml_func_signature(thing))

RECURSIVE OverviewRows(_, _, _, _, _, _)
OverviewRows(acc, xmlFiles, ymlfname, name, things, i) ==
    IF i > Len(things) \/ acc.exc # "" THEN acc
    ELSE OverviewRows(OverviewRow(acc, xmlFiles, ymlfname, name, things[i]),
                      xmlFiles, ymlfname, name, things, i + 1)

\* fnam[fnam.rfind("/") + 1 :]
Basename(fnam) == PySliceFrom(fnam, RFind(fnam, "/") + 1)

\* lines 749-752
OverviewSectionBegun(acc, name, sect) ==
    [acc EXCEPT !.out = @ \o rst_section(sect.subname, "-"),
                !.toc = @ \o "\n   "
                          \o Basename(subpage_filename(name, sect.subname))]

\* lines 753-797, the section begun
OverviewSectionListed(acc, xmlFiles, ymlfname, name, sect) ==
    IF sect.things = None THEN acc
    ELSE IF NoThings(sect)
    THEN [acc EXCEPT !.out = @ \o TableHeader, !.exc = "IndexError"]
    ELSE OverviewRows([acc EXCEPT !.out = @ \o TableHeader],
                      xmlFiles, ymlfname, name,
                      sorted(sect.things[1].members), 1)

\* one turn of the loop of line 748
OverviewSection(acc, xmlFiles, ymlfname, name, sect) ==
    OverviewSectionListed(OverviewSectionBegun(acc, name, sect),
                          xmlFiles, ymlfname, name, sect)

RECURSIVE OverviewSections(_, _, _, _, _, _)
OverviewSections(acc, xmlFiles, ymlfname, name, sections, i) ==
    IF i > Len(sections) \/ acc.exc # "" THEN acc
    ELSE OverviewSections(OverviewSection(acc, xmlFiles, ymlfname, name,
                                          sections[i]),
                          xmlFiles, ymlfname, name, sections, i + 1)

\* lines 799-801
overview_written(m, page, acc) ==
    IF acc.exc # "" THEN [m EXCEPT !.db = acc.db, !.exc = acc.exc]
    ELSE Emit([m EXCEPT !.db = acc.db], overview_filename(page.name),
              acc.out \o (IF page.sections # None THEN acc.toc \o "\n" ELSE ""))

\* lines 739-801, after doxy_kind returned or raised
overview_kinded(m, xmlFiles, ymlfname, page, k) ==
    IF k.exc # ""
    THEN [m EXCEPT !.db = __warn(k.db, ymlfname,
                                 "no doxygen output found for " \o page.name)]
    ELSE overview_written(m, page,
             OverviewSections(
                 [db |-> k.db,
                  out |-> _COPYRIGHT_NOTICE
                          \o rst_section(strip_libsemigroups_prefix(page.name), "=")
                          \o rst_doxy(k.value, page.name, None)
                          \o "\n.. cpp:namespace:: " \o page.name \o "\n\n",
                  toc |-> "\n.. toctree::\n   :hidden:\n",
                  exc |-> ""],
                 xmlFiles, ymlfname, page.name,
                 IF page.sections = None THEN <<>> ELSE page.sections[1], 1))

\* lines 738-801, after compare_yml_to_doxy returned or raised
overview_compared(m, xmlFiles, ymlfname, page, c) ==
    IF c.exc # "" THEN [m EXCEPT !.db = c.db, !.exc = c.exc]
    ELSE overview_kinded(m, xmlFiles, ymlfname, page,
                         doxy_kind(c.db, xmlFiles, <<ymlfname, page.name>>))

\* rst_generate_overview(ymlfname), page being what yaml.load returns
rst_generate_overview(m, xmlFiles, ymlfname, page) ==
    overview_compared(m, xmlFiles, ymlfname, page,
                      compare_yml_to_doxy(m.db, xmlFiles, ymlfname, page))

\* lines 829-845, after doxy_kind returned or raised
SubpageEntryKinded(acc, ymlfname, args, name, thing, k) ==
    IF k.exc # ""
    THEN [acc EXCEPT !.db = doxy_warn(k.db, ymlfname, args[2], args[3])]
    ELSE [acc EXCEPT !.db = k.db,
                     !.out = @ \o rst_doxy(k.value, name, Some(thing))]

SubpageEntrySigned(acc, xmlFiles, ymlfname, name, thing, sig) ==
    SubpageEntryKinded(acc, ymlfname,
        <<ymlfname, name \o "::" \o sig.name, sig.params>>, name,
        IF sig.params = Some("(bool(*)())")
        THEN sig.name \o "(bool (*func)())" ELSE thing,
        doxy_kind(acc.db, xmlFiles,
                  <<ymlfname, name \o "::" \o sig.name, sig.params>>))

\* one turn of the loop of line 828
SubpageEntry(acc, xmlFiles, ymlfname, name, thing) ==
    SubpageEntrySigned(acc, xmlFiles, ymlfname, name, thing,
                       extract_yml_func_signature(thing))

RECURSIVE SubpageEntries(_, _, _, _, _, _)
SubpageEntries(acc, xmlFiles, ymlfname, name, things, i) ==
    IF i > Len(things) THEN acc
    ELSE SubpageEntries(SubpageEntry(acc, xmlFiles, ymlfname, name, things[i]),
                        xmlFiles, ymlfname, name, things, i + 1)

\* lines 814-827
SubpageHead(sect) ==
    _COPYRIGHT_NOTICE \o rst_section(sect.subname, "=")
    \o ".. cpp:namespace:: libsemigroups\n\n"
    \o (IF sect.things[1].desc = None THEN ""
        ELSE sect.things[1].desc[1] \o "\n\n")
    \o ".. cpp:namespace-pop::\n\n"

\* line 847
subpage_written(m, rstfname, acc) == Emit([m EXCEPT !.db = acc.db], rstfname, acc.out)

\* one turn of the loop of line 810
SubpageSection(m, xmlFiles, ymlfname, name, sect) ==
    IF sect.things = None THEN m
    ELSE IF NoThings(sect) THEN [m EXCEPT !.exc = "IndexError"]
    ELSE subpage_written(m, subpage_filename(name, sect.subname),
             SubpageEntries([db |-> m.db, out |-> SubpageHead(sect)],
                            xmlFiles, ymlfname, name,
                            sorted(sect.things[1].members), 1))

RECURSIVE SubpageSections(_, _, _, _, _, _)
SubpageSections(m, xmlFiles, ymlfname, name, sections, i) ==
    IF i > Len(sections) \/ m.exc # "" THEN m
    ELSE SubpageSections(SubpageSection(m, xmlFiles, ymlfname, name, sections[i]),
                         xmlFiles, ymlfname, name, sections, i + 1)

\* rst_generate_subpages(ymlfname), page being what yaml.load returns
rst_generate_subpages(m, xmlFiles, ymlfname, page) ==
    IF page.sections = None THEN m
    ELSE SubpageSections(m, xmlFiles, ymlfname, page.name, page.sections[1], 1)

\* one turn of the loop of __clean_up (lines 115-118) without the os.remove
__clean_up_keeping(st, fname) == st

\* one turn of the loop of __clean_up (lines 115-118), fname joined to the
\* directory; os.remove raises on a directory
__clean_up_entry(st, fname) ==
    IF fname \in st.written THEN st
    ELSE IF st.fs[fname].kind = "dir"
    THEN [__info(st, "deleting!!!: " \o fname) EXCEPT !.pc = "raised"]
    ELSE [__info(st, "deleting!!!: " \o fname)
             EXCEPT !.fs = [f \in DOMAIN st.fs \ {fname} |-> st.fs[f]]]

\* __summary()
__summary(st, warnings) ==
    __info(st, "Summary: " \o ToString(st.actual) \o " / " \o ToString(st.attempted)
               \o " files rewritten and " \o ToString(warnings) \o " warnings!!")

(***************************************************************************)
(* main, from line 868 on: build/xml is as doxygen left it.  A run goes    *)
(* through the files of yml in sorted order, an overview and the subpages  *)
(* for each, then through the entries of source/_generated in the order    *)
(* os.listdir gives them, and ends with the summary; an exception that     *)
(* nothing catches ends it at once (pc "raised").  After a run the files   *)
(* of yml may be edited, and main run again in a new process.              *)
(***************************************************************************)
MaxRuns == 2

YmlUniverse ==
    [fname \in {"a.yml", "b.yml", "d.yml", "free.yml", "nope.yml", ".hidden.yml"} |->
        CASE fname = "a.yml" ->
                Page("ns::A", Some(<<Section("Members",
                                             Things(None, <<"v", "f(int)", "A()">>))>>))
          [] fname = "b.yml" ->
                Page("ns::A::B",
                     Some(<<Section("Member functions",
                                    Things(Some("All of them."), <<"h() const">>)),
                            Section("Later", None)>>))
          [] fname = "d.yml" ->
                Page("ns::D", Some(<<Section("Later", None)>>))
          [] fname = "free.yml" -> Page("ns::free", None)
          [] fname = "nope.yml" ->
                Page("ns::Nope", Some(<<Section("Members", Things(None, <<"x">>))>>))
          [] OTHER -> Page("ns::A", None)]

MaxYmlFiles == 2

YmlDirectories ==
    {[fname \in S |-> YmlUniverse[fname]] :
        S \in {T \in SUBSET DOMAIN YmlUniverse : Cardinality(T) <= MaxYmlFiles}}

XmlWorlds ==
    {[path \in S |-> XmlUniverse[path]] :
        S \in {DOMAIN XmlUniverse \ {"build/xml/namespacens_1_1detail.xml"},
               DOMAIN XmlUniverse \ {"build/xml/namespacens_1_1detail.xml",
                                     "build/xml/structns_1_1_a_1_1_b.xml"},
               {}}}

\* what source/_generated holds before the first run
GeneratedBefore ==
    UNION {[S -> {RegularFile("old\n"), Directory}] :
              S \in SUBSET {"source/_generated/old.rst",
                            "source/_generated/ns__a.rst"}}

InitMain ==
    /\ arg = "" /\ typed = 0 /\ res = None
    /\ xml \in XmlWorlds
    /\ listdir \in Listings(NamespaceFiles(xml))
    /\ __DOXY_DICT = <<>>
    /\ inserted = <<>>
    /\ __WARNINGS = 0
    /\ stderr = <<>>
    /\ opened = <<>>
    /\ raised = <<>>
    /\ lru = NoCaches
    /\ __defaults__ = <<>>
    /\ call = None
    /\ calls = 0
    /\ fs \in GeneratedBefore
    /\ pc = "main"
    /\ __REWRITES_ATTEMPTED = 0
    /\ __REWRITES_ACTUAL = 0
    /\ __RST_FILES_WRITTEN = {}
    /\ stdout = <<>>
    /\ yml \in YmlDirectories
    /\ queue = <<>>
    /\ emitted = <<>>
    /\ runs = 1

MainState == [db |-> DoxyState, st |-> FileState, emitted |-> emitted, exc |-> ""]

\* the state after a step of main that left m, main going on at next unless
\* the step raised
SetMainState(m, next) ==
    /\ SetDoxyState(m.db)
    /\ SetFileState([m.st EXCEPT !.pc = IF m.exc # "" THEN "raised" ELSE next])
    /\ emitted' = m.emitted

SetNames(S) == CHOOSE names \in [1..Cardinality(S) -> S] :
                   \A i, j \in 1..Cardinality(S) : i # j => names[i] # names[j]

\* lines 868-873: sorted(os.listdir("yml"))
MainBegin ==
    /\ pc = "main"
    /\ pc' = "pages"
    /\ stdout' = Append(stdout, "Generating sphinx rst files from docs/yml . . .")
    /\ queue' = [i \in 1..Cardinality(DOMAIN yml) |->
                    [fname |-> sorted(SetNames(DOMAIN yml))[i], op |-> "overview"]]
    /\ UNCHANGED <<strVars, doxyVars, fs, __REWRITES_ATTEMPTED, __REWRITES_ACTUAL,
                   __RST_FILES_WRITTEN, yml, emitted, runs>>

\* line 874, for a file whose name starts with "."
SkipHidden ==
    /\ pc = "pages"
    /\ queue # <<>>
    /\ StartsWith(queue[1].fname, ".")
    /\ queue' = Tail(queue)
    /\ UNCHANGED <<strVars, doxyVars, fs, pc, __REWRITES_ATTEMPTED,
                   __REWRITES_ACTUAL, __RST_FILES_WRITTEN, stdout, yml, emitted, runs>>

Processing(m, fname) ==
    [m EXCEPT !.st = __info(@, "Processing " \o fname \o " . . .")]

\* lines 875-877
GenerateOverview ==
    /\ pc = "pages"
    /\ queue # <<>>
    /\ ~StartsWith(queue[1].fname, ".")
    /\ queue[1].op = "overview"
    /\ SetMainState(rst_generate_overview(Processing(MainState, queue[1].fname), xml,
                                          "yml/" \o queue[1].fname,
                                          yml[queue[1].fname]),
                    "pages")
    /\ queue' = <<[queue[1] EXCEPT !.op = "subpages"]>> \o Tail(queue)
    /\ UNCHANGED <<strVars, xml, listdir, call, calls, yml, runs>>

\* line 878
GenerateSubpages ==
    /\ pc = "pages"
    /\ queue # <<>>
    /\ queue[1].op = "subpages"
    /\ SetMainState(rst_generate_subpages(MainState, xml, "yml/" \o queue[1].fname,
                                          yml[queue[1].fname]),
                    "pages")
    /\ queue' = Tail(queue)
    /\ UNCHANGED <<strVars, xml, listdir, call, calls, yml, runs>>

\* line 114: os.listdir("source/_generated"), which fixes no order
ListGenerated ==
    /\ pc = "pages"
    /\ queue = <<>>
    /\ pc' = "cleanup"
    /\ \E order \in [1..Cardinality(DOMAIN fs) -> DOMAIN fs] :
          /\ \A i, j \in 1..Cardinality(DOMAIN fs) : i # j => order[i] # order[j]
          /\ queue' = order
    /\ UNCHANGED <<strVars, doxyVars, fs, __REWRITES_ATTEMPTED, __REWRITES_ACTUAL,
                   __RST_FILES_WRITTEN, stdout, yml, emitted, runs>>

\* lines 115-118 for one entry
CleanUpEntry ==
    /\ pc = "cleanup"
    /\ queue # <<>>
    /\ SetFileState(__clean_up_entry(FileState, queue[1]))
    /\ queue' = Tail(queue)
    /\ UNCHANGED <<strVars, doxyVars, yml, emitted, runs>>

\* line 880
Summary ==
    /\ pc = "cleanup"
    /\ queue = <<>>
    /\ SetFileState([__summary(FileState, __WARNINGS) EXCEPT !.pc = "done"])
    /\ UNCHANGED <<strVars, doxyVars, yml, queue, emitted, runs>>

\* the files of yml are edited, and main is run in a new process
RunAgain ==
    /\ pc \in {"done", "raised"}
    /\ runs < MaxRuns
    /\ runs' = runs + 1
    /\ yml' \in YmlDirectories
    /\ pc' = "main"
    /\ queue' = <<>>
    /\ emitted' = <<>>
    /\ stdout' = <<>>
    /\ __REWRITES_ATTEMPTED' = 0
    /\ __REWRITES_ACTUAL' = 0
    /\ __RST_FILES_WRITTEN' = {}
    /\ __DOXY_DICT' = <<>>
    /\ inserted' = <<>>
    /\ __WARNINGS' = 0
    /\ stderr' = <<>>
    /\ opened' = <<>>
    /\ raised' = <<>>
    /\ lru' = NoCaches
    /\ __defaults__' = <<>>
    /\ listdir' \in Listings(NamespaceFiles(xml))
    /\ UNCHANGED <<strVars, xml, call, calls, fs>>

NextMain ==
    \/ MainBegin
    \/ SkipHidden
    \/ GenerateOverview
    \/ GenerateSubpages
    \/ ListGenerated
    \/ CleanUpEntry
    \/ Summary
    \/ RunAgain

SpecMain == InitMain /\ [][NextMain]_vars

WasEmitted(fname) == \E i \in 1..Len(emitted) : emitted[i].fname = fname

\* C2: after a full run of main, every file left in source/_generated was
\* passed to __write_file_if_changed during that run
C2_OnlyEmittedLeft == pc = "done" => \A fname \in DOMAIN fs : WasEmitted(fname)

\* C2's case: a second run is over, it deleted the overview of ns::free,
\* which the first run had made, and it left a page of its own
C2_Witness ==
    /\ pc = "done"
    /\ runs = 2
    /\ InTuple("deleting!!!: source/_generated/ns__free.rst", stdout)
    /\ DOMAIN fs # {}

\* C3: every name passed to __write_file_if_changed is tracked, whether
\* its file was rewritten or not; __clean_up removes only files that are not
\* tracked; so while and after __clean_up runs, every page emitted in this
\* run is in the output directory
C3_EmittedTrackedAndKept ==
    /\ [](\A i \in 1..Len(emitted) :
             /\ emitted[i].fname \in __RST_FILES_WRITTEN
             /\ pc \in {"cleanup", "done"} =>
                   /\ emitted[i].fname \in DOMAIN fs
                   /\ fs[emitted[i].fname].kind = "file")
    /\ [][\A fname \in DOMAIN fs :
             fname \notin DOMAIN fs' =>
                 pc = "cleanup" /\ fname \notin __RST_FILES_WRITTEN]_vars

\* C3's case: a run is over in which a page was emitted with the content
\* its file had, so that the file was not rewritten, and the file is there
C3_Witness ==
    /\ pc = "done"
    /\ \E i \in 1..Len(emitted) :
          /\ ~emitted[i].rewritten
          /\ emitted[i].fname \in DOMAIN fs
    /\ __REWRITES_ACTUAL < __REWRITES_ATTEMPTED

\* the name and the enclosing scopes of a name: its cuts at a "::"
Scopes(name) ==
    {name} \cup {PySlice(name, 0, k) : k \in {j \in 0..Len(name) : OccursAt(name, "::", j)}}

\* a name with no class or struct file for any of its scopes and no member
\* of a namespace file that the fallback scan files under it
NoDescriptor(name) ==
    /\ \A scope \in Scopes(name) : ~IsFile(xml, doxy_filename(xml, scope))
    /\ \A path \in NamespaceFiles(xml) : \A i \in 1..Len(xml[path].members) :
           xml[path].compoundname \o "::" \o xml[path].members[i].name # name

\* the warnings written for a key
WarningsFor(name, params) ==
    {i \in 1..Len(stderr) :
        stderr[i].msg = "no doxygen output found for " \o name \o ParamsText(params)}

\* C5: for a key without descriptor, however often and from whichever caller
\* it is looked up, "not found" is raised no more than once and no more
\* than one warning is written
C5_RaisedAndWarnedOnce ==
    \A key \in DOMAIN raised :
        NoDescriptor(key[1]) =>
            /\ raised[key] <= 1
            /\ Cardinality(WarningsFor(key[1], key[2])) <= 1

\* C6: every file of build/xml is opened and parsed at most once
C6_ParsedAtMostOnce == \A path \in DOMAIN opened : opened[path] <= 1

\* a key of the database, flat: <<name>>, or <<name, signature>>
DictKeys(dict) ==
    {<<n>> : n \in DOMAIN dict}
    \cup UNION {{<<n, sig>> : sig \in DOMAIN dict[n].sigs} : n \in DOMAIN dict}
DictNode(dict, k) == IF Len(k) = 1 THEN dict[k[1]].node ELSE dict[k[1]].sigs[k[2]]

\* C7 as stated: a key of the database, once present, is never removed and
\* the node it maps to is never replaced by another
C7_AsStated ==
    [][\A k \in DictKeys(__DOXY_DICT) :
          /\ k \in DictKeys(__DOXY_DICT')
          /\ DictNode(__DOXY_DICT', k) = DictNode(__DOXY_DICT, k)]_vars

\* a memberdef that doubles an earlier one of its file: the same name and
\* the same parameter signature
Doubles(new, old) ==
    /\ new.file = old.file
    /\ old.idx >= 1
    /\ new.idx > old.idx
    /\ xml[new.file].members[new.idx].name = xml[old.file].members[old.idx].name
    /\ ParamSignature(xml[new.file].members[new.idx])
           = ParamSignature(xml[old.file].members[old.idx])

\* C7: a key of the database, once present, is never removed; the node of a
\* qualified name is never replaced, and the node of a (name, signature) is
\* replaced only by a later memberdef of the same file that doubles it
C7_GrowsLastDoubleWins ==
    [][\A k \in DictKeys(__DOXY_DICT) :
          /\ k \in DictKeys(__DOXY_DICT')
          /\ DictNode(__DOXY_DICT', k) # DictNode(__DOXY_DICT, k) =>
                /\ Len(k) = 2
                /\ Doubles(DictNode(__DOXY_DICT', k), DictNode(__DOXY_DICT, k))]_vars

\* the second memberdef of f(int) has taken the place of the first
C7_Witness ==
    /\ "ns::A::f" \in DOMAIN __DOXY_DICT
    /\ "(int)" \in DOMAIN __DOXY_DICT["ns::A::f"].sigs
    /\ __DOXY_DICT["ns::A::f"].sigs["(int)"] = Node("build/xml/classns_1_1_a.xml", 4)
    /\ __DOXY_DICT["ns::A"].node = Node("build/xml/classns_1_1_a.xml", 0)

\* C13: no memberdef whose prot is other than public has an entry in the
\* database, whether its file is a class or struct file or a namespace file
C13_NonPublicSkipped ==
    \A k \in DictKeys(__DOXY_DICT) :
        DictNode(__DOXY_DICT, k).idx >= 1 =>
            xml[DictNode(__DOXY_DICT, k).file]
                .members[DictNode(__DOXY_DICT, k).idx].prot = "public"

\* a primary symbol whose descriptor was found, with a kind
Resolved(name) ==
    name \in DOMAIN __DOXY_DICT /\ __DOXY_DICT[name].kind = "tag"

\* C14: whatever symbols of the page specifications fail to resolve, main is
\* not aborted (source/_generated holding files only): it goes through every
\* page specification, reaches __clean_up and __summary, and by then the
\* overview page of every primary symbol that resolved is emitted
C14_BadSymbolsOnlyWarn ==
    (\A fname \in DOMAIN fs : fs[fname].kind = "file") =>
        /\ pc # "raised"
        /\ pc \in {"cleanup", "done"} =>
               \A fname \in DOMAIN yml :
                   (~StartsWith(fname, ".") /\ Resolved(yml[fname].name)) =>
                       WasEmitted(overview_filename(yml[fname].name))

TocHeader == ".. toctree::\n   :hidden:\n"

\* the entries of the hidden table of contents of an overview page: the
\* lines after its header that are not blank, without their indentation
TocEntries(contents) ==
    IF Find(contents, TocHeader) = -1 THEN {}
    ELSE LET lines == Split(PySliceFrom(contents, Find(contents, TocHeader)
                                                      + Len(TocHeader)), "\n")
         IN  {Strip(lines[i]) : i \in {j \in 1..Len(lines) : Strip(lines[j]) # ""}}

\* the secondary pages of a page specification: one file per named section
SubpagesOf(page) ==
    IF page.sections = None THEN {}
    ELSE {subpage_filename(page.name, page.sections[1][i].subname) :
             i \in 1..Len(page.sections[1])}

\* C15: after a run, the hidden table of contents of an overview page of
\* that run lists the secondary pages the run wrote for the symbol: every
\* entry is the file name of one of them, and each of them is an entry
C15_TocListsSubpages ==
    pc = "done" =>
        \A fname \in DOMAIN yml :
            (~StartsWith(fname, ".") /\ WasEmitted(overview_filename(yml[fname].name))) =>
                LET toc == TocEntries(TextModeRead(
                               fs[overview_filename(yml[fname].name)].bytes))
                IN  /\ \A entry \in toc : WasEmitted("source/_generated/" \o entry)
                    /\ \A sub \in SubpagesOf(yml[fname]) :
                           WasEmitted(sub) => Basename(sub) \in toc

(***************************************************************************)
(* doxy_run and the lines of main that act on it (856-867), a step for     *)
(* each of the two calls of os.system, which main waits in.  The state is  *)
(* in arg: include, the entries of ../include/libsemigroups (None: there   *)
(* is no such directory), build, the files under build/xml by their path   *)
(* below it (None: there is no build/xml), each file with the time it was  *)
(* last modified, and now, the clock.  A time is a float of Python, the    *)
(* number of seconds since the epoch or inf; the 0 that last_changed_source*)
(* starts from is an int.                                                  *)
(***************************************************************************)
MaxClock == 2

PyFloat(n) == [type |-> "float", inf |-> FALSE, n |-> n]
PyInt(n) == [type |-> "int", inf |-> FALSE, n |-> n]
Infinity == [type |-> "float", inf |-> TRUE, n |-> 0]

\* a < b
LessThan(a, b) == ~a.inf /\ (b.inf \/ a.n < b.n)

HeaderFile(mtime) == [kind |-> "file", mtime |-> mtime]
HeaderDirectory == [kind |-> "dir", mtime |-> 0]

TwoDigits(n) == IF n < 10 THEN "0" \o ToString(n) ELSE ToString(n)

\* __time_since_epoch_to_human(n), the local time being UTC and n less than
\* a minute: the text, or the AssertionError of __accepts(float)
__time_since_epoch_to_human(n) ==
    IF n.type # "float" THEN [exc |-> "AssertionError", text |-> ""]
    ELSE IF n.inf THEN [exc |-> "", text |-> "N/A"]
    ELSE [exc |-> "", text |-> "1970-01-01 00:00:" \o TwoDigits(n.n) \o ".000000"]

\* lines 270-275: the headers that count
IsTrackedHeader(include, f) ==
    /\ ~StartsWith(f, ".")
    /\ include[f].kind = "file"
    /\ EndsWith(f, ".hpp")

RECURSIVE last_changed_source(_, _, _, _)
\* the loop of lines 270-275 over os.listdir in the order listing, from
\* entry i on, best being last_changed_source before it
last_changed_source(include, listing, i, best) ==
    IF i > Len(listing) THEN best
    ELSE last_changed_source(include, listing, i + 1,
             IF /\ IsTrackedHeader(include, listing[i])
                /\ LessThan(best[1], PyFloat(include[listing[i]].mtime))
             THEN <<PyFloat(include[listing[i]].mtime),
                    "../include/libsemigroups/" \o listing[i]>>
             ELSE best)

RECURSIVE first_built_file(_, _, _, _)
\* the loops of lines 285-289 over os.walk in the order walked
first_built_file(build, walked, i, best) ==
    IF i > Len(walked) THEN best
    ELSE first_built_file(build, walked, i + 1,
             IF LessThan(PyFloat(build[walked[i]]), best[1])
             THEN <<PyFloat(build[walked[i]]), "build/xml/" \o walked[i]>>
             ELSE best)

\* lines 290-299, first being first_built_file and human its time as text
doxy_run_built(out, last, first, human) ==
    IF human.exc # "" THEN [out |-> out, exc |-> human.exc, value |-> FALSE]
    ELSE [out |-> Append(out, "The first built xml file is:\t\t" \o first[2]
                              \o "\nlast modified:\t\t\t\t" \o human.text),
          exc |-> "",
          value |-> IF human.text = "N/A" THEN TRUE ELSE LessThan(first[1], last[1])]

\* lines 277-289, last being last_changed_source and human its time as text
doxy_run_changed(build, walked, last, human) ==
    IF human.exc # "" THEN [out |-> <<>>, exc |-> human.exc, value |-> FALSE]
    ELSE doxy_run_built(
             <<"The last changed header file is:\t" \o last[2]
               \o "\nLast modified:\t\t\t\t" \o human.text>>,
             last,
             first_built_file(build, walked, 1, <<Infinity, "">>),
             __time_since_epoch_to_human(
                 first_built_file(build, walked, 1, <<Infinity, "">>)[1]))

\* doxy_run(), for the orders os.listdir and os.walk give the files in: what
\* it writes with __info (out), the exception it raises (exc) or the value
\* it returns
doxy_run(include, build, listing, walked) ==
    IF build = None
    THEN [out |-> <<"The folder docs/build/xml does not exist!">>, exc |-> "",
          value |-> TRUE]
    ELSE IF include = None
    THEN [out |-> <<>>, exc |-> "FileNotFoundError", value |-> FALSE]
    ELSE doxy_run_changed(build[1], walked,
             last_changed_source(include[1], listing, 1, <<PyInt(0), "">>),
             __time_since_epoch_to_human(
                 last_changed_source(include[1], listing, 1, <<PyInt(0), "">>)[1]))

\* a file of build/xml that the pattern build/xml/*.xml matches
IsTopLevelXml(f) == EndsWith(f, ".xml") /\ Find(f, "/") = -1 /\ ~StartsWith(f, ".")

\* os.system("touch build/xml/*.xml") at the time now: the files the pattern
\* matches are touched; when it matches none, the shell leaves the pattern
\* as it is and touch makes a file of that name, if there is a build/xml
touch(build, now) ==
    IF build = None THEN build
    ELSE IF \E f \in DOMAIN build[1] : IsTopLevelXml(f)
    THEN Some([f \in DOMAIN build[1] |->
                  IF IsTopLevelXml(f) THEN now ELSE build[1][f]])
    ELSE Some([f \in DOMAIN build[1] \cup {"*.xml"} |->
                  IF f = "*.xml" THEN now ELSE build[1][f]])

HeaderNames == {"a.hpp", "b.hpp", ".c.hpp"}
BuiltNames == {"index.xml", "sub/y.xml"}

InitDoxyRun ==
    /\ arg \in [include : {None, Some(<<>>),
                           Some([f \in {"d.hpp"} |-> HeaderDirectory]),
                           Some([f \in {"notes.txt"} |-> HeaderFile(1)])},
                build : {None},
                now : {1}]
    /\ typed = 0
    /\ res = None
    /\ fs = <<>>
    /\ pc = "shell"
    /\ __REWRITES_ATTEMPTED = 0
    /\ __REWRITES_ACTUAL = 0
    /\ __RST_FILES_WRITTEN = {}
    /\ stdout = <<>>
    /\ yml = <<>>
    /\ queue = <<>>
    /\ emitted = <<>>
    /\ runs = 0
    /\ DoxyIdle

\* main is not running, or it waits in os.system for doxygen or for touch:
\* the clock and the other processes go on
MainIsWaiting == pc \in {"shell", "doxygen", "touch"}

\* a second goes by
Tick ==
    /\ MainIsWaiting
    /\ arg.now < MaxClock
    /\ arg' = [arg EXCEPT !.now = @ + 1]
    /\ UNCHANGED <<typed, res, fileVars, doxyVars>>

\* a file of ../include/libsemigroups is written
EditHeader(f) ==
    /\ MainIsWaiting
    /\ arg.include # None
    /\ arg' = [arg EXCEPT !.include = Some(Put(@[1], f, HeaderFile(arg.now)))]
    /\ UNCHANGED <<typed, res, fileVars, doxyVars>>

\* the files S are what is under build/xml, written now
WriteBuilt(S) ==
    /\ MainIsWaiting
    /\ arg' = [arg EXCEPT !.build =
                  Some([f \in S \cup (IF @ = None THEN {} ELSE DOMAIN @[1]) |->
                           IF f \in S THEN arg.now ELSE @[1][f]])]
    /\ UNCHANGED <<typed, res, fileVars, doxyVars>>

\* what os.system("doxygen") can leave of build/xml: the exit status is not
\* looked at, so the tool may have done nothing, or made its files anew
Doxygen(build, now) ==
    {build, Some([f \in BuiltNames |-> now])}

\* sys.stderr.write of an escape sequence: not a warning of __warn
Escape(code) == [raw |-> code]

\* lines 856-861 and 866-867 of main: doxy_run is called, and main goes on
\* to os.system("doxygen") or past the else; res keeps what doxy_run saw
\* and what it did.  The escape sequence "\033[2m" is "ESC[2m" here.
MainDoxyRun ==
    /\ pc = "shell"
    /\ \E listing \in Listings(IF arg.include = None THEN {} ELSE DOMAIN arg.include[1]),
          walked \in Listings(IF arg.build = None THEN {} ELSE DOMAIN arg.build[1]) :
          LET r == doxy_run(arg.include, arg.build, listing, walked) IN
          /\ res' = Some([include |-> arg.include, build |-> arg.build,
                          exc |-> r.exc, value |-> r.value])
          /\ IF r.exc # ""
             THEN /\ pc' = "raised"
                  /\ stdout' = r.out
                  /\ stderr' = stderr
             ELSE IF r.value
             THEN /\ pc' = "doxygen"
                  /\ stdout' = r.out \o <<"ESC[2m", "Running doxygen!">>
                  /\ stderr' = Append(stderr, Escape("ESC[2m"))
             ELSE /\ pc' = "main"
                  /\ stdout' = r.out \o <<"Not running doxygen!">>
                  /\ stderr' = stderr
    /\ UNCHANGED <<arg, typed, fs, __REWRITES_ATTEMPTED, __REWRITES_ACTUAL,
                   __RST_FILES_WRITTEN, yml, queue, emitted, runs,
                   xml, listdir, __DOXY_DICT, inserted, __WARNINGS, opened,
                   raised, lru, __defaults__, call, calls>>

\* line 862: os.system("doxygen") returns
MainDoxygen ==
    /\ pc = "doxygen"
    /\ pc' = "touch"
    /\ \E built \in Doxygen(arg.build, arg.now) :
          arg' = [arg EXCEPT !.build = built]
    /\ UNCHANGED <<typed, res, fs, __REWRITES_ATTEMPTED, __REWRITES_ACTUAL,
                   __RST_FILES_WRITTEN, stdout, yml, queue, emitted, runs,
                   doxyVars>>

\* lines 863-865: os.system("touch build/xml/*.xml") returns, and the
\* escape sequence "\033[0m" goes to stderr and to stdout
MainTouch ==
    /\ pc = "touch"
    /\ pc' = "main"
    /\ arg' = [arg EXCEPT !.build = touch(@, arg.now)]
    /\ stderr' = Append(stderr, Escape("ESC[0m"))
    /\ stdout' = Append(stdout, "ESC[0m")
    /\ UNCHANGED <<typed, res, fs, __REWRITES_ATTEMPTED, __REWRITES_ACTUAL,
                   __RST_FILES_WRITTEN, yml, queue, emitted, runs,
                   xml, listdir, __DOXY_DICT, inserted, __WARNINGS, opened,
                   raised, lru, __defaults__, call, calls>>

\* the run is over, whatever the rest of main did
BackToShell ==
    /\ pc \in {"main", "raised"}
    /\ pc' = "shell"
    /\ res' = None
    /\ stdout' = <<>>
    /\ stderr' = <<>>
    /\ UNCHANGED <<arg, typed, fs, __REWRITES_ATTEMPTED, __REWRITES_ACTUAL,
                   __RST_FILES_WRITTEN, yml, queue, emitted, runs,
                   xml, listdir, __DOXY_DICT, inserted, __WARNINGS, opened,
                   raised, lru, __defaults__, call, calls>>

NextDoxyRun ==
    \/ Tick
    \/ \E f \in HeaderNames : EditHeader(f)
    \/ \E S \in SUBSET BuiltNames : WriteBuilt(S)
    \/ MainDoxyRun
    \/ MainDoxygen
    \/ MainTouch
    \/ BackToShell

SpecDoxyRun == InitDoxyRun /\ [][NextDoxyRun]_vars

\* the times of the headers doxy_run looks at
TrackedTimes(include) ==
    IF include = None THEN {}
    ELSE {include[1][f].mtime : f \in {g \in DOMAIN include[1] :
                                          IsTrackedHeader(include[1], g)}}

BuiltTimes(build) ==
    IF build = None THEN {} ELSE {build[1][f] : f \in DOMAIN build[1]}

\* every generated file is newer than every tracked header
AllNewer(include, build) ==
    \A b \in BuiltTimes(build) : \A h \in TrackedTimes(include) : b > h

\* C16: with tracked headers there, doxy_run returns False exactly when
\* build/xml exists, holds a file, and its oldest file is newer than the
\* header changed last; otherwise (equal times included) it returns True and
\* main runs doxygen before it goes on
C16_SkippedOnlyWhenNewer ==
    (res # None /\ TrackedTimes(res[1].include) # {}) =>
        /\ res[1].exc = ""
        /\ res[1].value = FALSE <=>
               /\ res[1].build # None
               /\ BuiltTimes(res[1].build) # {}
               /\ AllNewer(res[1].include, res[1].build)
        /\ res[1].value = TRUE => InTuple("Running doxygen!", stdout)

(***************************************************************************)
(* The walk of doxy_xml (lines 329-332) one iteration at a time, for a     *)
(* name that is not in __DOXY_DICT.  arg holds the name and the files of   *)
(* build/xml, res the class_ and pos of the loop and the number of         *)
(* iterations made.                                                        *)
(***************************************************************************)
WalkSeeds ==
    {"a", "a::b", "a::b::c", "a::b::c::d", "a::b::b", "a::B_c", "a:::b", "a::", "::a"}

WalkFiles ==
    {"build/xml/classa.xml", "build/xml/classa_1_1b.xml", "build/xml/structa_1_1b.xml",
     "build/xml/structa_1_1b_1_1c.xml", "build/xml/classa_1_1_b__c.xml"}

\* the test of the while loop at line 331; doxy_filename computes the
\* mangled form of class_ here, as it does for a name it sees first
WalkContinues(xmlFiles, class_, pos) ==
    pos # -1 /\ ~IsFile(xmlFiles, ClassOrStructFile(xmlFiles, doxy_mangle(class_)))

\* line 332 with the cut made after the :: and not before it
WalkStep_after_separator(class_, pos) ==
    <<PySlice(class_, 0, pos + 2), RFind(class_, "::")>>

\* line 332: both values of the right-hand side are taken from the old class_
WalkStep(class_, pos) == <<PySlice(class_, 0, pos), RFind(class_, "::")>>

InitWalk ==
    /\ arg \in [name : WalkSeeds,
                files : {[path \in S |-> ""] : S \in SUBSET WalkFiles}]
    /\ typed = 0
    /\ res = None
    /\ fs = <<>>
    /\ pc = "called"
    /\ __REWRITES_ATTEMPTED = 0
    /\ __REWRITES_ACTUAL = 0
    /\ __RST_FILES_WRITTEN = {}
    /\ stdout = <<>>
    /\ yml = <<>>
    /\ queue = <<>>
    /\ emitted = <<>>
    /\ runs = 0
    /\ DoxyIdle

\* lines 329-330
WalkBegin ==
    /\ pc = "called"
    /\ pc' = "walk"
    /\ res' = Some([class_ |-> arg.name, pos |-> RFind(arg.name, "::"),
                    iterations |-> 0])
    /\ UNCHANGED <<arg, typed, fs, __REWRITES_ATTEMPTED, __REWRITES_ACTUAL,
                   __RST_FILES_WRITTEN, stdout, yml, queue, emitted, runs, doxyVars>>

\* one iteration of the loop, lines 331-332
WalkIterate ==
    /\ pc = "walk"
    /\ WalkContinues(arg.files, res[1].class_, res[1].pos)
    /\ res' = Some([class_ |-> WalkStep(res[1].class_, res[1].pos)[1],
                    pos |-> WalkStep(res[1].class_, res[1].pos)[2],
                    iterations |-> res[1].iterations + 1])
    /\ UNCHANGED <<arg, typed, fileVars, doxyVars>>

\* the loop is left for line 333
WalkEnd ==
    /\ pc = "walk"
    /\ ~WalkContinues(arg.files, res[1].class_, res[1].pos)
    /\ pc' = "walked"
    /\ UNCHANGED <<arg, typed, res, fs, __REWRITES_ATTEMPTED, __REWRITES_ACTUAL,
                   __RST_FILES_WRITTEN, stdout, yml, queue, emitted, runs, doxyVars>>

NextWalk == WalkBegin \/ WalkIterate \/ WalkEnd

SpecWalk == InitWalk /\ [][NextWalk]_vars

\* there is a class file or a struct file for the scope
ScopeFileExists(xmlFiles, scope) ==
    \/ IsFile(xmlFiles, "build/xml/class" \o doxy_mangle(scope) \o ".xml")
    \/ IsFile(xmlFiles, "build/xml/struct" \o doxy_mangle(scope) \o ".xml")

RECURSIVE NearestScope(_, _)
\* the longest of the prefixes of a name, got by taking off trailing
\* ::segment parts, that has a file; the outermost one when none has
NearestScope(xmlFiles, scope) ==
    IF ScopeFileExists(xmlFiles, scope) \/ RFind(scope, "::") = -1 THEN scope
    ELSE NearestScope(xmlFiles, PySlice(scope, 0, RFind(scope, "::")))

\* scope is name, or name cut where a :: begins
CutAtBoundary(scope, name) ==
    \/ scope = name
    \/ /\ Len(scope) < Len(name)
       /\ scope = PySlice(name, 0, Len(scope))
       /\ OccursAt(name, "::", Len(scope))

\* C17: the walk from a name that is not in the database comes to an end,
\* whatever files there are: it makes no more iterations than the name has
\* characters, and then leaves the loop; it ends at the nearest enclosing
\* scope that has a class or struct file, or at the outermost segment when
\* none has; and class_ is never anything but the name cut at a :: boundary
C17_WalkEndsAtNearestScope ==
    /\ pc \in {"walk", "walked"} =>
           /\ CutAtBoundary(res[1].class_, arg.name)
           /\ res[1].iterations <= Len(arg.name)
    /\ pc = "walked" =>
           /\ res[1].class_ = NearestScope(arg.files, arg.name)
           /\ res[1].class_ = WalkOutward(arg.files, arg.name, RFind(arg.name, "::"))

\* the walk passed a::b::c and stopped at a::b, with a file for a as well
C17_Witness ==
    /\ pc = "walked"
    /\ arg.name = "a::b::c::d"
    /\ res[1].class_ = "a::b"
    /\ res[1].iterations = 3
    /\ IsFile(arg.files, "build/xml/classa.xml")
    /\ ~IsFile(arg.files, "build/xml/structa_1_1b_1_1c.xml")

====
